---- MODULE Spec2Model ----
(***************************************************************************)
(* TELEGLAS Pro: a model of the alert queue and its drain loop, of the     *)
(* stream client, of the signal validator and of the per-symbol analysis   *)
(* tasks of the supervisor.                                                *)
(*                                                                         *)
(* asyncio runs one task at a time and switches tasks only at an await     *)
(* that suspends, so every action below is the code of one task between    *)
(* two suspension points.                                                  *)
(***************************************************************************)
EXTENDS Integers, Sequences, FiniteSets, TLC

(***************************************************************************)
(* Bounds of the model.                                                    *)
(***************************************************************************)
\* AlertQueue(max_size=...): capacity of the priority queue
max_size == 3
\* number of distinct alert payloads the producers hand to add()
MaxAlerts == 4
\* number of deliveries the drain loop attempts
MaxSends == 5

\* SignalValidator(max_signals_per_hour=...)
max_signals_per_hour == 2
\* number of validate() calls
MaxValidations == 3
\* wall-clock minutes between two readings of datetime.now()
TickMinutes == 5
\* last reading of the wall clock, in minutes
MaxClock == 60
\* connections the server may end or let time out
MaxConnects == 2
\* connection attempts in a row the server may refuse
MaxAttempts == 5
\* analysis tasks created in a run
MaxAnalyses == 3
\* monitoring.max_concurrent_analysis
max_concurrent_analysis == 2
\* event-loop seconds between two readings of loop.time()
TickSeconds == 5
\* last reading of the event-loop clock, in seconds
MaxLoopTime == 10
\* signals handed to the tracker
MaxTracked == 2
\* trades in a window of the order-flow analyzer
MaxWindow == 11
\* check_rate_limit: requests an address may make in a window (30 in the code)
RATE_LIMIT == 2
\* check_rate_limit: addresses the store keeps (10000 in the code)
RATE_LIMIT_MAX_IPS == 2
\* requests made to the dashboard
MaxRequests == 6
\* the last reading of the dashboard's clock, seconds
MaxApiClock == 60
\* subscription requests waiting for the supervisor
MaxPending == 2
\* confidence saves of cleanup_task in a run
MaxWrites == 1
\* calls of check_outcomes that find a price float() does not take
MaxRaised == 1
\* sessions of the stream while the subscriptions are followed
MaxStreams == 2
\* calls of cleanup_old_data while other threads insert
MaxCleanups == 1

\* the price levels of a signal whose outcome is evaluated on its own
MaxLevel == 6

\* liquidations in the window a stop hunt is looked for in
MaxLiqs == 3

\* results in the learner history when a confidence is adjusted
MaxHistory == 2

(***************************************************************************)
(* Program constants.                                                      *)
(***************************************************************************)
\* SignalValidator(cooldown_minutes=5)
cooldown_minutes == 5
\* analysis.signal_check_interval: 900 s, in minutes
check_interval == 15
\* check_outcomes: tracked.check_after = now + 300, in minutes
ExtendMinutes == 5
\* _record_outcome: keep only the last 500 completed signals
CompletedKept == 500
\* record_result: keep only the last 100 results per type
HistoryKept == 100
\* ConfidenceScorer(learning_rate=0.1), in tenths
LearningRateTenths == 1
\* OrderFlowAnalyzer: large_order_threshold, thousands of USD
large_order_threshold == 10
\* OrderFlowAnalyzer: accumulation_ratio and distribution_ratio, percent
AccumulationPct == 65
DistributionPct == 35
\* analyze needs this many trades, a signal this many large orders
MinTrades == 10
MinLargeOrders == 3
\* check_rate_limit: the window, seconds
RateWindow == 60
\* a step of the dashboard's clock, seconds
ApiTick == 30
\* is_duplicate: timedelta(minutes=10)
DedupMinutes == 10
\* signals.min_confidence, percent
min_confidence == 70
\* add(..., max_retries: int = 3)
DefaultMaxRetries == 3
\* retry(): retry_priority = min(priority + 1, 3)
LowestPriority == 3
\* WebSocketClient._max_consecutive_timeouts
max_consecutive_timeouts == 3
\* websocket.reconnect_delay, seconds
reconnect_delay == 5
\* websocket.max_reconnect_delay, seconds
max_reconnect_delay == 60
\* analyze_and_alert: no second analysis of a symbol within 5 seconds
DebounceSeconds == 5
\* dashboard add_signal: keep only the last 200 signals
MaxDashboardSignals == 200

\* buffers.max_liquidations and buffers.max_trades: the rings hold this many
max_liquidations == 2
max_trades == 2
\* events the handlers are given
MaxEvents == 3
\* time.time() runs up to this, milliseconds
MaxTimeMs == 2001
\* cleanup_old_data, add_liquidation: seconds * 1000
MsPerSecond == 1000
\* the clock is read this many milliseconds after a whole second, at most
MaxOddMs == 1

Priorities == 1..LowestPriority

\* the max_retries arguments add() is called with: none, and the default
RetryArgs == {0, DefaultMaxRetries}

\* is_rate_limited: timedelta(hours=1), in minutes
HourMinutes == 1 * 60

\* confidences are held in tenths of a percent
MinConfidenceTenths == min_confidence * 10

\* the fused signals validate() is called with
Symbols == {"BTCUSDT", "ETHUSDT"}
\* the coins of the configuration, which the dashboard starts with; a coin
\* seen in liquidations only has no entry
trade_symbols == {"BTCUSDT"}
Kinds == {<<"STOP_HUNT", "LONG">>, <<"STOP_HUNT", "SHORT">>}
\* 69.0 is under min_confidence; 70.0 and 72.5 round to band 70, 77.5 to band 80
Confidences == {690, 700, 725, 775}
Signals ==
    {[symbol |-> "BTCUSDT", signal_type |-> k[1], direction |-> k[2], confidence |-> c] :
        k \in Kinds, c \in Confidences}

Reasons == {"low_confidence", "duplicate", "cooldown", "rate_limit"}
EmptyMap == [x \in {} |-> 0]

NoAlert == [priority |-> 0, alert |-> 0, timestamp |-> 0, retry_count |-> 0, max_retries |-> 0]

VARIABLES
    \* ---- AlertQueue ----
    heap,             \* PriorityQueue._queue: the heapq list of QueuedAlert
    unfinished,       \* PriorityQueue._unfinished_tasks
    total_queued,     \* AlertQueue._total_queued
    total_processed,  \* AlertQueue._total_processed
    total_failed,     \* AlertQueue._total_failed
    total_retried,    \* AlertQueue._total_retried
    nextStamp,        \* the clock QueuedAlert.timestamp is read from
    addResult,        \* what the last add() of a producer returned
    \* ---- TeleglasPro.alert_processor ----
    procPc,           \* "get" | "send" | "retry_add"
    queued_alert,     \* the QueuedAlert the drain loop holds
    alerts_sent,      \* stats['alerts_sent']
    \* ---- history ----
    nextAlert,        \* payloads handed out so far
    sends,            \* deliveries attempted so far
    requeues,         \* payload -> times retry() re-enqueued it
    \* ---- SignalValidator ----
    wallClock,        \* datetime.now(), in minutes
    recent_signals,   \* SignalValidator.recent_signals
    signal_cooldowns, \* SignalValidator.signal_cooldowns: key -> expiry
    recent_hashes,    \* SignalValidator.recent_hashes: hash -> time seen
    total_validated,  \* SignalValidator._total_validated
    total_approved,   \* SignalValidator._total_approved
    total_rejected,   \* SignalValidator._total_rejected
    rejection_reasons,\* SignalValidator._rejection_reasons
    validation,       \* what the last validate() was given and returned
    approvals,        \* history: the approved signals, with their times
    \* ---- WebSocketClient ----
    state,            \* WebSocketClient.state
    connection,       \* WebSocketClient.connection: 0 is None, else the session
    conn_open,        \* not connection.closed, of the last session opened
    is_authenticated, \* WebSocketClient._is_authenticated
    should_reconnect, \* WebSocketClient._should_reconnect
    reconnect_attempts, \* WebSocketClient._reconnect_attempts
    delay,            \* the last backoff slept, seconds
    consecutive_timeouts, \* WebSocketClient._consecutive_timeouts
    receive_task,     \* WebSocketClient._receive_task: 0 is None, else the task
    heartbeat_task,   \* WebSocketClient._heartbeat_task
    tasks,            \* the tasks of the event loop: kind, pc, pending cancel
    sessions,         \* sessions the server has opened so far
    \* ---- history ----
    lostSession,      \* the session whose receive loop gave up on timeouts
    serverRefused,    \* the server has refused a connection or a login
    loginFailed,      \* the session whose login was refused or timed out
    \* ---- SignalTracker, ConfidenceScorer ----
    pending,          \* SignalTracker._pending
    completed,        \* SignalTracker._completed
    stats,            \* SignalTracker._stats: type -> total, wins, losses, neutral
    signal_history,   \* ConfidenceScorer.signal_history: type -> results
    win_rates,        \* ConfidenceScorer.win_rates: type -> fraction
    outcome_updates,  \* the _on_outcome tasks created, in order
    tracked_count,    \* number of track_signal calls
    checked,          \* signal_tracker_task has called check_outcomes since
                      \* the clock last moved
    \* ---- TeleglasPro.analyze_and_alert ----
    loopTime,         \* asyncio.get_event_loop().time(), in seconds
    last_analysis,    \* TeleglasPro.last_analysis: symbol -> time
    lock_holder,      \* analysis_locks[symbol]: the task holding it, 0 if free
    lock_waiters,     \* analysis_locks[symbol]._waiters, first come first
    ready,            \* the event loop's queue of callbacks that are due: the
                      \* first step of a created task, the wake-up of a waiter
    atasks,           \* the analysis tasks: symbol, now, pc, market context
    dashboard_signals,\* dashboard system_state["signals"]
    coins,            \* dashboard system_state["coins"]: symbol -> its entry
    \* ---- history ----
    fused,            \* signals the generator has produced
    detector_starts,  \* symbol -> the last two starts of its detectors: time and task
    \* ---- BufferManager ----
    timeMs,               \* int(time.time() * 1000)
    liquidation_buffers,  \* BufferManager.liquidation_buffers: symbol -> ring
    trade_buffers,        \* BufferManager.trade_buffers: symbol -> ring
    total_liquidations,   \* BufferManager._total_liquidations
    total_trades,         \* BufferManager._total_trades
    dropped_liquidations, \* BufferManager._dropped_liquidations
    dropped_trades,       \* BufferManager._dropped_trades
    validation_count,     \* DataValidator._validation_count
    error_count,          \* DataValidator._error_count
    \* ---- history ----
    cleaned,              \* the last cleanup_old_data with no insert since: its
                          \* age, its time, and whether it was the second call
                          \* in a row with that age at that time
    \* ---- OrderFlowAnalyzer ----
    flow_trades,          \* what get_trades(symbol, time_window) returns
    flow_signal,          \* what the last analyze() returned
    \* ---- dashboard API ----
    rate_limit_store,     \* _rate_limit_store: address -> times of its requests
    api_now,              \* time.time(), in seconds
    \* ---- history ----
    responses,            \* the requests answered: address, time, status
    api_token,            \* API_TOKEN, "" when none is configured
    subscription_queue,   \* _subscription_queue
    api_response,         \* the answer to the last request to a coin endpoint
    raised_checks,        \* history: the calls of check_outcomes that raised
    \* ---- trade subscriptions of TeleglasPro ----
    trade_subscribed,     \* _trade_subscribed
    discovered_symbols,   \* discovered_symbols
    stream_up,            \* websocket_client.is_connected()
    stream_session,       \* the sessions established so far
    session_frames,       \* the symbols whose trades channel has been
                          \* subscribed on the current session
    \* ---- BufferManager used from several threads ----
    cleaner,              \* the thread inside cleanup_old_data: where it is,
                          \* the buffers it has yet to clean, its cutoff, the
                          \* deque it has built, and whether the deque it
                          \* iterates has been appended to
    \* ---- history ----
    inserted,             \* the events inserted into each buffer, in order
    newest_cutoff,        \* the latest cutoff a cleanup has run with
    \* ---- functions called on their own ----
    called,               \* the function called last, with its arguments
    returned,             \* what that call returned
    \* ---- TeleglasPro.run ----
    shutdown_event,       \* shutdown_event.is_set()
    run_pc,               \* where run() is
    bg,                   \* the background tasks of run()
    db,                   \* Database._db: "open" or "closed" (None)
    \* ---- history ----
    shutdown_steps,       \* what run() has done since the shutdown event
    db_writes             \* the state written, and whether the storage was open

queueVars == <<heap, unfinished, total_queued, total_processed, total_failed,
               total_retried, nextStamp, addResult, procPc, queued_alert,
               alerts_sent, nextAlert, sends, requeues>>

validatorVars == <<wallClock, recent_signals, signal_cooldowns, recent_hashes,
                   total_validated, total_approved, total_rejected,
                   rejection_reasons, validation, approvals>>

clientVars == <<state, connection, conn_open, is_authenticated, should_reconnect,
                reconnect_attempts, delay, consecutive_timeouts, receive_task,
                heartbeat_task, tasks, sessions, lostSession, serverRefused,
                loginFailed>>

pipelineVars == <<loopTime, last_analysis, lock_holder, lock_waiters, ready, atasks,
                  dashboard_signals, coins, fused, detector_starts>>

bufferVars == <<timeMs, liquidation_buffers, trade_buffers, total_liquidations,
                total_trades, dropped_liquidations, dropped_trades,
                validation_count, error_count, cleaned>>

trackerVars == <<pending, completed, stats, signal_history, win_rates,
                 outcome_updates, tracked_count, checked, raised_checks>>

analyzerVars == <<flow_trades, flow_signal>>

limiterVars == <<rate_limit_store, api_now, responses>>

dashboardVars == <<api_token, subscription_queue, api_response>>

supervisorVars == <<shutdown_event, run_pc, bg, db, shutdown_steps, db_writes>>

callVars == <<called, returned>>

threadVars == <<cleaner, inserted, newest_cutoff>>

subscriptionVars == <<trade_subscribed, discovered_symbols, stream_up,
                      stream_session, session_frames>>

\* the variables of the queue, validator, client, pipeline, buffers, tracker
coreVars == <<queueVars, validatorVars, clientVars, pipelineVars, bufferVars,
              trackerVars>>
\* the variables of the components that stand alone
lateVars == <<analyzerVars, limiterVars, dashboardVars, supervisorVars, callVars,
              subscriptionVars, threadVars>>

vars == <<coreVars, lateVars>>

\* what an action of the alert queue and its drain loop leaves alone
QueueOnly == UNCHANGED <<validatorVars, clientVars, pipelineVars, bufferVars,
                         trackerVars, lateVars>>
\* what an action of the validator leaves alone
ValidatorOnly == UNCHANGED <<queueVars, clientVars, pipelineVars, bufferVars,
                             trackerVars, lateVars>>
\* what an action of the stream client leaves alone
ClientOnly == UNCHANGED <<queueVars, validatorVars, pipelineVars, bufferVars,
                          trackerVars, lateVars>>
\* what an action of the analysis pipeline leaves alone
PipelineOnly == UNCHANGED <<clientVars, bufferVars, trackerVars, lateVars>>
\* what a message handler and the buffer manager leave alone
IntakeOnly == UNCHANGED <<queueVars, validatorVars, clientVars, trackerVars, lateVars>>
\* what the signal tracker leaves alone
TrackerOnly == UNCHANGED <<queueVars, validatorVars, clientVars, pipelineVars,
                           bufferVars, lateVars>>
\* what the order-flow analyzer leaves alone
AnalyzerOnly == UNCHANGED <<coreVars, limiterVars, dashboardVars, supervisorVars,
                            callVars, subscriptionVars, threadVars>>
\* what the dashboard's rate limiter leaves alone
LimiterOnly == UNCHANGED <<coreVars, analyzerVars, dashboardVars, supervisorVars,
                           callVars, subscriptionVars, threadVars>>
\* what a function called on its own leaves alone
CallOnly == UNCHANGED <<coreVars, analyzerVars, limiterVars, dashboardVars,
                        supervisorVars, subscriptionVars, threadVars>>
\* what the trade subscriptions leave alone
SubscriptionsOnly ==
    UNCHANGED <<coreVars, analyzerVars, limiterVars, supervisorVars, callVars,
                threadVars, api_token, api_response>>
\* what the threads that use the buffer manager leave alone
ThreadsOnly ==
    UNCHANGED <<queueVars, validatorVars, clientVars, pipelineVars, trackerVars,
                analyzerVars, limiterVars, dashboardVars, supervisorVars, callVars,
                subscriptionVars>>

(***************************************************************************)
(* QueuedAlert: @dataclass(order=True) with every field but priority       *)
(* declared compare=False, so a < b compares the priorities alone.         *)
(***************************************************************************)
\* the order a dataclass comparing the timestamp instead would give
QueuedAlertLtByTimestamp(a, b) == a.timestamp < b.timestamp

QueuedAlertLt(a, b) == a.priority < b.priority

QueuedAlert(priority, alert, stamp, max_retries) ==
    [priority |-> priority, alert |-> alert, timestamp |-> stamp,
     retry_count |-> 0, max_retries |-> max_retries]

(***************************************************************************)
(* heapq, as asyncio.PriorityQueue uses it (_put = heappush, _get =        *)
(* heappop).  Positions are 0-based as in the library; h[pos + 1] is the   *)
(* element at position pos.                                                *)
(***************************************************************************)
At(h, pos) == h[pos + 1]
Put(h, pos, x) == [h EXCEPT ![pos + 1] = x]

RECURSIVE SiftDown(_, _, _, _)
\* heapq._siftdown(heap, startpos, pos) with newitem carried along
SiftDown(h, startpos, pos, newitem) ==
    IF pos > startpos
    THEN LET parentpos == (pos - 1) \div 2
             parent == At(h, parentpos)
         IN  IF QueuedAlertLt(newitem, parent)
             THEN SiftDown(Put(h, pos, parent), startpos, parentpos, newitem)
             ELSE Put(h, pos, newitem)
    ELSE Put(h, pos, newitem)

RECURSIVE SiftUpLoop(_, _, _, _)
\* the while loop of heapq._siftup: bubble the smaller child up until a leaf
SiftUpLoop(h, pos, endpos, newitem) ==
    LET childpos == 2 * pos + 1
        rightpos == childpos + 1
        c == IF rightpos < endpos /\ ~QueuedAlertLt(At(h, childpos), At(h, rightpos))
             THEN rightpos ELSE childpos
    IN  IF childpos < endpos
        THEN SiftUpLoop(Put(h, pos, At(h, c)), c, endpos, newitem)
        ELSE <<h, pos>>

\* heapq._siftup(heap, pos)
SiftUp(h, pos) ==
    LET newitem == At(h, pos)
        r == SiftUpLoop(h, pos, Len(h), newitem)
    IN  SiftDown(Put(r[1], r[2], newitem), pos, r[2], newitem)

\* heapq.heappush(heap, item)
HeapPush(h, item) == SiftDown(Append(h, item), 0, Len(h), item)

\* heapq.heappop(heap): <<returned item, heap left>>
HeapPop(h) ==
    LET lastelt == h[Len(h)]
        rest == SubSeq(h, 1, Len(h) - 1)
    IN  IF rest # <<>>
        THEN <<rest[1], SiftUp(Put(rest, 0, lastelt), 0)>>
        ELSE <<lastelt, rest>>

\* a queue without a bound
QueueNeverFull == FALSE

\* PriorityQueue.full()
QueueFull == Len(heap) >= max_size

Min(a, b) == IF a < b THEN a ELSE b

(***************************************************************************)
(* AlertQueue.add, called by a producer.  queue.put waits while the queue  *)
(* is full and wait_for gives up after 1 s: add returns False and nothing  *)
(* is changed.                                                             *)
(***************************************************************************)
AddOk(alert, priority, max_retries) ==
    /\ ~QueueFull
    /\ heap' = HeapPush(heap, QueuedAlert(priority, alert, nextStamp, max_retries))
    /\ nextStamp' = nextStamp + 1
    /\ unfinished' = unfinished + 1
    /\ total_queued' = total_queued + 1

AddTimeout ==
    /\ QueueFull
    /\ UNCHANGED <<heap, nextStamp, unfinished, total_queued>>

add ==
    /\ nextAlert < MaxAlerts
    /\ \E priority \in Priorities, max_retries \in RetryArgs :
          \/ AddOk(nextAlert + 1, priority, max_retries) /\ addResult' = TRUE
          \/ AddTimeout /\ addResult' = FALSE
    /\ nextAlert' = nextAlert + 1
    /\ UNCHANGED <<total_processed, total_failed, total_retried, procPc,
                   queued_alert, alerts_sent, sends, requeues>>
    /\ QueueOnly

(***************************************************************************)
(* alert_processor: queued_alert = await self.alert_queue.get(timeout=1.0) *)
(***************************************************************************)
get ==
    /\ procPc = "get"
    /\ heap # <<>>
    /\ sends < MaxSends
    /\ queued_alert' = HeapPop(heap)[1]
    /\ heap' = HeapPop(heap)[2]
    /\ procPc' = "send"
    /\ sends' = sends + 1
    /\ UNCHANGED <<unfinished, total_queued, total_processed, total_failed,
                   total_retried, nextStamp, addResult, alerts_sent, nextAlert,
                   requeues>>
    /\ QueueOnly

\* AlertQueue.mark_processed(success)
MarkProcessed(success, failedSoFar) ==
    /\ unfinished' = unfinished - 1
    /\ total_processed' = IF success THEN total_processed + 1 ELSE total_processed
    /\ total_failed' = IF success THEN failedSoFar ELSE failedSoFar + 1

(***************************************************************************)
(* alert_processor: success = await self.telegram_bot.send_alert(...)      *)
(* returned.  On success the alert is marked processed.  On failure        *)
(* retry() runs up to its await of add().                                  *)
(***************************************************************************)
send_ok ==
    /\ procPc = "send"
    /\ MarkProcessed(TRUE, total_failed)
    /\ alerts_sent' = alerts_sent + 1
    /\ procPc' = "get"
    /\ queued_alert' = NoAlert
    /\ UNCHANGED <<heap, total_queued, total_retried, nextStamp, addResult,
                   nextAlert, sends, requeues>>
    /\ QueueOnly

\* retry(): retry_count >= max_retries, return False; the caller marks failed
retry_exhausted ==
    /\ procPc = "send"
    /\ queued_alert.retry_count >= queued_alert.max_retries
    /\ MarkProcessed(FALSE, total_failed + 1)
    /\ procPc' = "get"
    /\ queued_alert' = NoAlert
    /\ UNCHANGED <<heap, total_queued, total_retried, nextStamp, addResult,
                   alerts_sent, nextAlert, sends, requeues>>
    /\ QueueOnly

\* retry(): count the retry on the dequeued object and go on to add()
retry_again ==
    /\ procPc = "send"
    /\ queued_alert.retry_count < queued_alert.max_retries
    /\ queued_alert' = [queued_alert EXCEPT !.retry_count = @ + 1]
    /\ total_retried' = total_retried + 1
    /\ procPc' = "retry_add"
    /\ UNCHANGED <<heap, unfinished, total_queued, total_processed, total_failed,
                   nextStamp, addResult, alerts_sent, nextAlert, sends, requeues>>
    /\ QueueOnly

(***************************************************************************)
(* retry(): return await self.add(queued_alert.alert,                      *)
(*                   priority=retry_priority, max_retries=...)             *)
(* add() builds a new QueuedAlert from these three arguments.              *)
(***************************************************************************)
\* a retry that keeps the priority of the alert
RetryAlertSamePriority(qa) ==
    QueuedAlert(qa.priority, qa.alert, nextStamp, qa.max_retries)

RetryAlert(qa) ==
    QueuedAlert(Min(qa.priority + 1, LowestPriority), qa.alert, nextStamp,
                qa.max_retries)

retry_add_ok ==
    /\ procPc = "retry_add"
    /\ ~QueueFull
    /\ heap' = HeapPush(heap, RetryAlert(queued_alert))
    /\ nextStamp' = nextStamp + 1
    /\ unfinished' = unfinished + 1
    /\ total_queued' = total_queued + 1
    /\ requeues' = [requeues EXCEPT ![queued_alert.alert] = @ + 1]
    /\ procPc' = "get"
    /\ queued_alert' = NoAlert
    /\ UNCHANGED <<total_processed, total_failed, total_retried, addResult,
                   alerts_sent, nextAlert, sends>>
    /\ QueueOnly

\* the queue stayed full for the 1 s wait: add() returned False, the drain
\* loop marks the alert failed
retry_add_timeout ==
    /\ procPc = "retry_add"
    /\ QueueFull
    /\ MarkProcessed(FALSE, total_failed)
    /\ procPc' = "get"
    /\ queued_alert' = NoAlert
    /\ UNCHANGED <<heap, total_queued, total_retried, nextStamp, addResult,
                   alerts_sent, nextAlert, sends, requeues>>
    /\ QueueOnly

(***************************************************************************)
(* SignalValidator.                                                        *)
(***************************************************************************)
\* generate_signal_key: f"{symbol}_{signal_type}_{direction}"; the three
\* parts come from fixed vocabularies, so the string names the triple
generate_signal_key(sig) == <<sig.symbol, sig.signal_type, sig.direction>>

\* Python's round(): to the nearest integer, a tie to the even one.
\* x is confidence / 5 with the confidence in tenths: tenths / 50.
PyRoundDiv50(tenths) ==
    LET q == tenths \div 50
        r == tenths % 50
    IN  IF r < 25 THEN q
        ELSE IF r > 25 THEN q + 1
        ELSE IF q % 2 = 0 THEN q ELSE q + 1

\* confidence_band = round(signal.confidence / 5) * 5
ConfidenceBand(tenths) == PyRoundDiv50(tenths) * 5

\* the hash a validator that does not band the confidence would compute
generate_signal_hash_unbanded(sig) ==
    <<sig.symbol, sig.signal_type, sig.direction, sig.confidence>>

\* generate_signal_hash: md5 of f"{symbol}_{signal_type}_{direction}_{band}",
\* taken as free of collisions
generate_signal_hash(sig) ==
    <<sig.symbol, sig.signal_type, sig.direction, ConfidenceBand(sig.confidence)>>

\* {k: t for k, t in d.items() if t > cutoff}
NewerThan(d, cutoff) == [k \in {x \in DOMAIN d : d[x] > cutoff} |-> d[k]]

\* [t for t in l if t > cutoff]
RECURSIVE ListNewerThan(_, _)
ListNewerThan(l, cutoff) ==
    IF l = <<>> THEN <<>>
    ELSE IF Head(l) > cutoff
         THEN <<Head(l)>> \o ListNewerThan(Tail(l), cutoff)
         ELSE ListNewerThan(Tail(l), cutoff)

\* is_duplicate(): the hashes it keeps
HashesKept == NewerThan(recent_hashes, wallClock - DedupMinutes)
is_duplicate(h) == h \in DOMAIN HashesKept

\* is_in_cooldown(): the cooldowns it keeps
CooldownsKept == NewerThan(signal_cooldowns, wallClock)
is_in_cooldown(key) ==
    key \in DOMAIN CooldownsKept /\ wallClock < CooldownsKept[key]

\* is_rate_limited(): the approvals it keeps
SignalsKept == ListNewerThan(recent_signals, wallClock - HourMinutes)

\* a rate limit that lets one signal too many through
is_rate_limited_off_by_one(kept) == Len(kept) > max_signals_per_hour

\* is_rate_limited(): len(self.recent_signals) >= self.max_signals_per_hour
is_rate_limited(kept) == Len(kept) >= max_signals_per_hour

\* a cooldown that ends one tick of the clock early
CooldownUntilShort(now) == now + cooldown_minutes - TickMinutes

\* _approve_signal: now + timedelta(minutes=self.cooldown_minutes)
CooldownUntil(now) == now + cooldown_minutes

Reject(sig, reason) ==
    /\ total_rejected' = total_rejected + 1
    /\ rejection_reasons' = [rejection_reasons EXCEPT ![reason] = @ + 1]
    /\ validation' = [signal |-> sig, valid |-> FALSE, reason |-> reason]
    /\ UNCHANGED <<total_approved, approvals>>

(***************************************************************************)
(* validate(signal): the four rules in order.  Each check prunes its own   *)
(* table before it answers, also when the signal is then rejected.         *)
(***************************************************************************)
validate(sig) ==
    LET h == generate_signal_hash(sig)
        key == generate_signal_key(sig)
    IN
    /\ total_validated' = total_validated + 1
    /\ IF sig.confidence < MinConfidenceTenths
       THEN /\ Reject(sig, "low_confidence")
            /\ UNCHANGED <<recent_hashes, signal_cooldowns, recent_signals>>
       ELSE IF is_duplicate(h)
       THEN /\ Reject(sig, "duplicate")
            /\ recent_hashes' = HashesKept
            /\ UNCHANGED <<signal_cooldowns, recent_signals>>
       ELSE IF is_in_cooldown(key)
       THEN /\ Reject(sig, "cooldown")
            /\ recent_hashes' = HashesKept
            /\ signal_cooldowns' = CooldownsKept
            /\ UNCHANGED recent_signals
       ELSE IF is_rate_limited(SignalsKept)
       THEN /\ Reject(sig, "rate_limit")
            /\ recent_hashes' = HashesKept
            /\ signal_cooldowns' = CooldownsKept
            /\ recent_signals' = SignalsKept
       ELSE \* _approve_signal
            /\ recent_signals' = Append(SignalsKept, wallClock)
            /\ signal_cooldowns' = (key :> CooldownUntil(wallClock)) @@ CooldownsKept
            /\ recent_hashes' = (h :> wallClock) @@ HashesKept
            /\ total_approved' = total_approved + 1
            /\ validation' = [signal |-> sig, valid |-> TRUE, reason |-> "none"]
            /\ approvals' = Append(approvals,
                                   [signal |-> sig, time |-> wallClock])
            /\ UNCHANGED <<total_rejected, rejection_reasons>>

\* a caller hands a fused signal to validate()
validate_call ==
    /\ total_validated < MaxValidations
    /\ \E sig \in Signals : validate(sig)
    /\ UNCHANGED wallClock
    /\ ValidatorOnly

\* get_remaining_quota(), read by get_stats(): prunes recent_signals
get_remaining_quota ==
    /\ recent_signals # SignalsKept
    /\ recent_signals' = SignalsKept
    /\ UNCHANGED <<wallClock, signal_cooldowns, recent_hashes, total_validated,
                   total_approved, total_rejected, rejection_reasons, validation,
                   approvals>>
    /\ ValidatorOnly

\* the wall clock moves on
wall_tick ==
    /\ total_validated < MaxValidations
    /\ wallClock + TickMinutes <= MaxClock
    /\ wallClock' = wallClock + TickMinutes
    /\ UNCHANGED <<recent_signals, signal_cooldowns, recent_hashes,
                   total_validated, total_approved, total_rejected,
                   rejection_reasons, validation, approvals>>
    /\ ValidatorOnly

NoSignal == [symbol |-> "", signal_type |-> "", direction |-> "", confidence |-> 0]

InitValidator ==
    /\ wallClock = 0
    /\ recent_signals = <<>>
    /\ signal_cooldowns = EmptyMap
    /\ recent_hashes = EmptyMap
    /\ total_validated = 0
    /\ total_approved = 0
    /\ total_rejected = 0
    /\ rejection_reasons = [r \in Reasons |-> 0]
    /\ validation = [signal |-> NoSignal, valid |-> FALSE, reason |-> "none"]
    /\ approvals = <<>>

NextValidator ==
    \/ validate_call
    \/ get_remaining_quota
    \/ wall_tick

(***************************************************************************)
(* WebSocketClient.  A task is a coroutine of the event loop; an action is *)
(* the run of one task from one suspending await to the next.              *)
(***************************************************************************)
States == {"disconnected", "connecting", "connected", "reconnecting", "closed"}

\* where a task is suspended:
\*   start            run() before connect()                        (main)
\*   await_connect    await websockets.connect(...)
\*   await_auth       await wait_for(connection.recv(), 10) of _authenticate
\*   backoff_sleep    await asyncio.sleep(delay)
\*   running          run() after connect() returned True           (main)
\*   disc_wait_recv   disconnect(): await wait_for(_receive_task, 5)
\*   disc_wait_hb     disconnect(): await wait_for(_heartbeat_task, 5)
\*   disc_closing     disconnect(): await wait_for(connection.close(), 5)
\*   stopped          run() is over                                 (main)
\*   created          a task that has not run yet
\*   recv_wait        await wait_for(connection.recv(), 60)
\*   sleep            await asyncio.sleep(heartbeat_interval)
\*   done, cancelled  the coroutine has ended
DonePcs == {"done", "cancelled"}
MainTask == 1

NewTask(kind) == [kind |-> kind, pc |-> "created", cancel |-> FALSE]

\* task.done()
Live(tk, id) == id # 0 /\ tk[id].pc \notin DonePcs

\* if task and not task.done(): task.cancel()
Cancel(tk, id) == IF Live(tk, id) THEN [tk EXCEPT ![id].cancel = TRUE] ELSE tk

\* is_connected()
is_connected ==
    connection # 0 /\ conn_open /\ state = "connected" /\ is_authenticated

\* the coroutine a task runs returns: connect() hands its result to run(),
\* a receive loop that reconnected from its finally block ends
Return(tk, t, ok) ==
    [tk EXCEPT ![t].pc = IF tk[t].kind = "main"
                         THEN IF ok THEN "running" ELSE "stopped"
                         ELSE "done"]

\* connect(), from `while True` to `await websockets.connect(...)`, run by
\* task t, which has made the tasks tk and sees the state st
ConnectPrefix(t, tk, st) ==
    IF st = "connected"
    THEN /\ state' = st
         /\ tasks' = Return(tk, t, TRUE)
    ELSE /\ state' = "connecting"
         /\ tasks' = [Cancel(Cancel(tk, heartbeat_task), receive_task)
                         EXCEPT ![t].pc = "await_connect"]

\* a delay that doubles without the cap
BackoffUncapped(attempts) == reconnect_delay * 2 ^ (attempts - 1)

\* min(reconnect_delay * 2 ** (attempts - 1), max_reconnect_delay)
Backoff(attempts) == Min(reconnect_delay * 2 ^ (attempts - 1), max_reconnect_delay)

\* the finally block of _receive_loop, run by task t; endPc is how the
\* coroutine ends when it does not reconnect
RecvFinally(t, tk, endPc) ==
    IF should_reconnect /\ state # "closed"
    THEN \* _schedule_reconnect()
         /\ is_authenticated' = FALSE
         /\ connection' = 0
         /\ ConnectPrefix(t, tk, "disconnected")
    ELSE /\ tasks' = [tk EXCEPT ![t].pc = endPc]
         /\ UNCHANGED <<state, is_authenticated, connection>>

\* the end of disconnect(): connection = None, _is_authenticated = False
DiscEnd(t, tk) ==
    /\ connection' = 0
    /\ is_authenticated' = FALSE
    /\ conn_open' = FALSE
    /\ tasks' = Return(tk, t, FALSE)

\* disconnect(), closing the connection
DiscClose(t, tk) ==
    IF connection # 0 /\ conn_open
    THEN /\ tasks' = [tk EXCEPT ![t].pc = "disc_closing"]
         /\ UNCHANGED <<connection, is_authenticated, conn_open>>
    ELSE DiscEnd(t, tk)

\* disconnect(), cancelling the heartbeat task
DiscHeartbeat(t, tk) ==
    IF Live(tk, heartbeat_task)
    THEN /\ tasks' = [Cancel(tk, heartbeat_task) EXCEPT ![t].pc = "disc_wait_hb"]
         /\ UNCHANGED <<connection, is_authenticated, conn_open>>
    ELSE DiscClose(t, tk)

\* disconnect(), from its start to its first await, run by task t
DisconnectPrefix(t, tk) ==
    /\ should_reconnect' = FALSE
    /\ state' = "closed"
    /\ IF Live(tk, receive_task)
       THEN /\ tasks' = [Cancel(tk, receive_task) EXCEPT ![t].pc = "disc_wait_recv"]
            /\ UNCHANGED <<connection, is_authenticated, conn_open>>
       ELSE DiscHeartbeat(t, tk)

\* run(): connected = await self.websocket_client.connect()
main_connect ==
    /\ tasks[MainTask].pc = "start"
    /\ ConnectPrefix(MainTask, tasks, state)
    /\ UNCHANGED <<connection, conn_open, is_authenticated, should_reconnect,
                   reconnect_attempts, delay, consecutive_timeouts, receive_task,
                   heartbeat_task, sessions, lostSession, serverRefused, loginFailed>>
    /\ ClientOnly

\* websockets.connect() returns a connection; _authenticate() sends the login
\* and waits for the answer
connect_established ==
    /\ \E t \in DOMAIN tasks :
          /\ tasks[t].pc = "await_connect"
          /\ ~tasks[t].cancel
          /\ sessions' = sessions + 1
          /\ connection' = sessions + 1
          /\ conn_open' = TRUE
          /\ tasks' = [tasks EXCEPT ![t].pc = "await_auth"]
    /\ UNCHANGED <<state, is_authenticated, should_reconnect, reconnect_attempts,
                   delay, consecutive_timeouts, receive_task, heartbeat_task,
                   lostSession, serverRefused, loginFailed>>
    /\ ClientOnly

\* websockets.connect() raises: the except branch of connect()
connect_failed ==
    /\ reconnect_attempts < MaxAttempts
    /\ \E t \in DOMAIN tasks :
          /\ tasks[t].pc = "await_connect"
          /\ ~tasks[t].cancel
          /\ IF ~should_reconnect
             THEN /\ state' = "disconnected"
                  /\ tasks' = Return(tasks, t, FALSE)
                  /\ UNCHANGED <<reconnect_attempts, delay>>
             ELSE /\ reconnect_attempts' = reconnect_attempts + 1
                  /\ delay' = Backoff(reconnect_attempts + 1)
                  /\ state' = "reconnecting"
                  /\ tasks' = [tasks EXCEPT ![t].pc = "backoff_sleep"]
    /\ serverRefused' = TRUE
    /\ UNCHANGED <<connection, conn_open, is_authenticated, should_reconnect,
                   consecutive_timeouts, receive_task, heartbeat_task, sessions,
                   lostSession, loginFailed>>
    /\ ClientOnly

\* asyncio.sleep(delay) is over: connect() loops
backoff_wake ==
    /\ \E t \in DOMAIN tasks :
          /\ tasks[t].pc = "backoff_sleep"
          /\ ~tasks[t].cancel
          /\ ConnectPrefix(t, tasks, state)
    /\ UNCHANGED <<connection, conn_open, is_authenticated, should_reconnect,
                   reconnect_attempts, delay, consecutive_timeouts, receive_task,
                   heartbeat_task, sessions, lostSession, serverRefused, loginFailed>>
    /\ ClientOnly

\* the login is accepted: connect() starts the two loops, calls the connect
\* callback and returns True
auth_ok ==
    /\ \E t \in DOMAIN tasks :
          /\ tasks[t].pc = "await_auth"
          /\ ~tasks[t].cancel
          /\ tasks' = Return(Append(Append(tasks, NewTask("recv")), NewTask("hb")),
                             t, TRUE)
    /\ is_authenticated' = TRUE
    /\ state' = "connected"
    /\ reconnect_attempts' = 0
    /\ receive_task' = Len(tasks) + 1
    /\ heartbeat_task' = Len(tasks) + 2
    /\ UNCHANGED <<connection, conn_open, should_reconnect, delay,
                   consecutive_timeouts, sessions, lostSession, serverRefused, loginFailed>>
    /\ ClientOnly

\* the login is refused or times out: connect() calls disconnect() and
\* returns False
auth_refused ==
    /\ \E t \in DOMAIN tasks :
          /\ tasks[t].pc = "await_auth"
          /\ ~tasks[t].cancel
          /\ DisconnectPrefix(t, tasks)
    /\ serverRefused' = TRUE
    /\ loginFailed' = connection
    /\ UNCHANGED <<reconnect_attempts, delay, consecutive_timeouts, receive_task,
                   heartbeat_task, sessions, lostSession>>
    /\ ClientOnly

\* run() leaves its loop: await self.websocket_client.disconnect()
shutdown ==
    /\ tasks[MainTask].pc = "running"
    /\ DisconnectPrefix(MainTask, tasks)
    /\ UNCHANGED <<reconnect_attempts, delay, consecutive_timeouts, receive_task,
                   heartbeat_task, sessions, lostSession, serverRefused, loginFailed>>
    /\ ClientOnly

\* disconnect(): the receive task it waits for has ended
disc_recv_done ==
    /\ \E t \in DOMAIN tasks :
          /\ tasks[t].pc = "disc_wait_recv"
          /\ ~tasks[t].cancel
          /\ ~Live(tasks, receive_task)
          /\ DiscHeartbeat(t, tasks)
    /\ UNCHANGED <<state, should_reconnect, reconnect_attempts, delay,
                   consecutive_timeouts, receive_task, heartbeat_task, sessions,
                   lostSession, serverRefused, loginFailed>>
    /\ ClientOnly

\* disconnect(): the heartbeat task it waits for has ended
disc_hb_done ==
    /\ \E t \in DOMAIN tasks :
          /\ tasks[t].pc = "disc_wait_hb"
          /\ ~tasks[t].cancel
          /\ ~Live(tasks, heartbeat_task)
          /\ DiscClose(t, tasks)
    /\ UNCHANGED <<state, should_reconnect, reconnect_attempts, delay,
                   consecutive_timeouts, receive_task, heartbeat_task, sessions,
                   lostSession, serverRefused, loginFailed>>
    /\ ClientOnly

\* disconnect(): connection.close() is over
disc_closed ==
    /\ \E t \in DOMAIN tasks :
          /\ tasks[t].pc = "disc_closing"
          /\ ~tasks[t].cancel
          /\ DiscEnd(t, tasks)
    /\ UNCHANGED <<state, should_reconnect, reconnect_attempts, delay,
                   consecutive_timeouts, receive_task, heartbeat_task, sessions,
                   lostSession, serverRefused, loginFailed>>
    /\ ClientOnly

\* _receive_loop runs for the first time: while self.is_connected()
recv_start ==
    /\ \E t \in DOMAIN tasks :
          /\ tasks[t].kind = "recv"
          /\ tasks[t].pc = "created"
          /\ ~tasks[t].cancel
          /\ IF is_connected
             THEN /\ tasks' = [tasks EXCEPT ![t].pc = "recv_wait"]
                  /\ UNCHANGED <<state, is_authenticated, connection>>
             ELSE RecvFinally(t, tasks, "done")
    /\ UNCHANGED <<conn_open, should_reconnect, reconnect_attempts, delay,
                   consecutive_timeouts, receive_task, heartbeat_task, sessions,
                   lostSession, serverRefused, loginFailed>>
    /\ ClientOnly

\* a frame arrives within the 60 s: the counter is reset, the frame handled
recv_message ==
    /\ \E t \in DOMAIN tasks :
          /\ tasks[t].pc = "recv_wait"
          /\ ~tasks[t].cancel
          /\ conn_open
          /\ IF is_connected
             THEN UNCHANGED <<tasks, state, is_authenticated, connection>>
             ELSE RecvFinally(t, tasks, "done")
    /\ consecutive_timeouts' = 0
    /\ UNCHANGED <<conn_open, should_reconnect, reconnect_attempts, delay,
                   receive_task, heartbeat_task, sessions, lostSession,
                   serverRefused, loginFailed>>
    /\ ClientOnly

\* no frame within the 60 s: asyncio.TimeoutError
recv_timeout ==
    /\ sessions <= MaxConnects
    /\ \E t \in DOMAIN tasks :
          /\ tasks[t].pc = "recv_wait"
          /\ ~tasks[t].cancel
          /\ consecutive_timeouts' = consecutive_timeouts + 1
          /\ IF consecutive_timeouts + 1 >= max_consecutive_timeouts
             THEN \* break
                  /\ lostSession' = connection
                  /\ RecvFinally(t, tasks, "done")
             ELSE \* continue
                  /\ UNCHANGED lostSession
                  /\ IF is_connected
                     THEN UNCHANGED <<tasks, state, is_authenticated, connection>>
                     ELSE RecvFinally(t, tasks, "done")
    /\ UNCHANGED <<conn_open, should_reconnect, reconnect_attempts, delay,
                   receive_task, heartbeat_task, sessions, serverRefused, loginFailed>>
    /\ ClientOnly

\* the peer closes the connection: websockets.exceptions.ConnectionClosed
recv_closed ==
    /\ sessions <= MaxConnects
    /\ \E t \in DOMAIN tasks :
          /\ tasks[t].pc = "recv_wait"
          /\ ~tasks[t].cancel
          /\ conn_open
          /\ RecvFinally(t, tasks, "done")
    /\ conn_open' = FALSE
    /\ UNCHANGED <<should_reconnect, reconnect_attempts, delay,
                   consecutive_timeouts, receive_task, heartbeat_task, sessions,
                   lostSession, serverRefused, loginFailed>>
    /\ ClientOnly

\* _heartbeat_loop: while self.is_connected(): sleep, ping
hb_step ==
    /\ \E t \in DOMAIN tasks :
          /\ tasks[t].kind = "hb"
          /\ tasks[t].pc \in {"created", "sleep"}
          /\ ~tasks[t].cancel
          /\ tasks' = [tasks EXCEPT ![t].pc = IF is_connected THEN "sleep" ELSE "done"]
    /\ UNCHANGED <<state, connection, conn_open, is_authenticated, should_reconnect,
                   reconnect_attempts, delay, consecutive_timeouts, receive_task,
                   heartbeat_task, sessions, lostSession, serverRefused, loginFailed>>
    /\ ClientOnly

\* a task that was cancelled gets CancelledError at the await it is suspended
\* in.  CancelledError is no Exception: only the receive loop's finally block
\* and the waits of disconnect() act on it.
cancel_delivered ==
    /\ \E t \in DOMAIN tasks :
          /\ tasks[t].cancel
          /\ tasks[t].pc \notin DonePcs
          /\ LET tk == [tasks EXCEPT ![t].cancel = FALSE]
             IN  IF tasks[t].pc = "recv_wait"
                 THEN /\ RecvFinally(t, tk, "cancelled")
                      /\ UNCHANGED conn_open
                 ELSE IF tasks[t].pc = "disc_wait_recv"
                 THEN /\ DiscHeartbeat(t, tk)
                      /\ UNCHANGED state
                 ELSE IF tasks[t].pc = "disc_wait_hb"
                 THEN /\ DiscClose(t, tk)
                      /\ UNCHANGED state
                 ELSE /\ tasks' = [tk EXCEPT ![t].pc = "cancelled"]
                      /\ UNCHANGED <<state, connection, conn_open, is_authenticated>>
    /\ UNCHANGED <<should_reconnect, reconnect_attempts, delay,
                   consecutive_timeouts, receive_task, heartbeat_task, sessions,
                   lostSession, serverRefused, loginFailed>>
    /\ ClientOnly

\* the owner of a client that has returned from run()'s connect() or
\* disconnect() calls the public connect() once more
connect_call ==
    /\ tasks[MainTask].pc = "stopped"
    /\ \A t \in DOMAIN tasks : tasks[t].kind # "caller"
    /\ ConnectPrefix(Len(tasks) + 1, Append(tasks, NewTask("caller")), state)
    /\ UNCHANGED <<connection, conn_open, is_authenticated, should_reconnect,
                   reconnect_attempts, delay, consecutive_timeouts, receive_task,
                   heartbeat_task, sessions, lostSession, serverRefused, loginFailed>>
    /\ ClientOnly

InitClient ==
    /\ state = "disconnected"
    /\ connection = 0
    /\ conn_open = FALSE
    /\ is_authenticated = FALSE
    /\ should_reconnect = TRUE
    /\ reconnect_attempts = 0
    /\ delay = 0
    /\ consecutive_timeouts = 0
    /\ receive_task = 0
    /\ heartbeat_task = 0
    /\ tasks = <<[kind |-> "main", pc |-> "start", cancel |-> FALSE]>>
    /\ sessions = 0
    /\ lostSession = 0
    /\ serverRefused = FALSE
    /\ loginFailed = 0

\* the steps the event loop and a responsive server take when they can
ClientProgress ==
    \/ main_connect
    \/ connect_established
    \/ backoff_wake
    \/ auth_ok
    \/ disc_recv_done
    \/ disc_hb_done
    \/ disc_closed
    \/ recv_start
    \/ recv_message
    \/ hb_step
    \/ cancel_delivered

NextClient ==
    \/ ClientProgress
    \/ connect_failed
    \/ auth_refused
    \/ recv_timeout
    \/ recv_closed
    \/ shutdown

(***************************************************************************)
(* TeleglasPro.run and handle_shutdown: the supervisor around the stream   *)
(* client, its five background tasks and the storage.  run() is the main   *)
(* task of the client's task list; run_pc says where it is around its      *)
(* calls of connect() and disconnect():                                    *)
(*   connect     connected = await self.websocket_client.connect()         *)
(*   wait        await shutdown_event.wait()                               *)
(*   disconnect  await self.websocket_client.disconnect()                  *)
(*   gather      await asyncio.gather of the tasks      *)
(*   save_coins  _save_state: await self.db.save_dashboard_coins(coins)    *)
(*   close       await self.db.close()                                     *)
(*   complete    "Shutdown complete"                                       *)
(*   failed      return, connect() having returned False                   *)
(* and a background task is created, sleeping (in the await of its loop),  *)
(* cancelling (task.cancel() called, CancelledError not yet raised in it), *)
(* done or cancelled.                                                      *)
(***************************************************************************)
BackgroundTasks == {"alert_processor", "stats_reporter", "cleanup_task",
                    "signal_tracker_task", "dynamic_subscription_task"}

NoTasks == [t \in BackgroundTasks |-> "none"]

\* what the supervisor leaves alone
SupervisorOnly ==
    UNCHANGED <<queueVars, validatorVars, pipelineVars, bufferVars, trackerVars,
                analyzerVars, limiterVars, dashboardVars, callVars,
                subscriptionVars, threadVars>>

\* the client's variables that run() does not touch when it calls disconnect()
ClientRest ==
    <<reconnect_attempts, delay, consecutive_timeouts, receive_task,
      heartbeat_task, sessions, lostSession, serverRefused, loginFailed>>

\* a write or a commit of Database: self._db is None once close() has run,
\* and the caller's except clause logs the AttributeError
Written(writes, what) == Append(writes, [what |-> what, db |-> db])

\* for task in tasks: task.cancel()
CancelAll(b) == [t \in BackgroundTasks |-> IF b[t] \in DonePcs THEN b[t] ELSE "cancelling"]

\* asyncio.gather of the tasks is over
GatheredAny(b) == TRUE
Gathered(b) == \A t \in BackgroundTasks : b[t] \in DonePcs

\* the receive loop of the client is still there to hand frames to on_message
Accepting ==
    \E t \in DOMAIN tasks : tasks[t].kind = "recv" /\ tasks[t].pc \notin DonePcs

\* handle_shutdown(): shutdown_event.set()
handle_shutdown ==
    /\ shutdown_event' = TRUE
    /\ UNCHANGED <<run_pc, bg, db, shutdown_steps, db_writes, clientVars>>
    /\ SupervisorOnly

\* run() from `await shutdown_event.wait()`, the event being set, into
\* disconnect()
RunShutdown ==
    /\ DisconnectPrefix(MainTask, tasks)
    /\ run_pc' = "disconnect"
    /\ shutdown_steps' = Append(shutdown_steps, "disconnect")
    /\ UNCHANGED <<shutdown_event, db, db_writes, ClientRest>>
    /\ SupervisorOnly

\* connect() has returned True: run() makes the five background tasks and
\* waits for the shutdown event; Event.wait() does not suspend when the
\* event is set already
run_connected ==
    /\ run_pc = "connect"
    /\ tasks[MainTask].pc = "running"
    /\ bg' = [t \in BackgroundTasks |-> "created"]
    /\ IF shutdown_event
       THEN RunShutdown
       ELSE /\ run_pc' = "wait"
            /\ UNCHANGED <<shutdown_event, db, shutdown_steps, db_writes, clientVars>>
            /\ SupervisorOnly

\* connect() has returned False: `if not connected: return`
run_not_connected ==
    /\ run_pc = "connect"
    /\ tasks[MainTask].pc = "stopped"
    /\ run_pc' = "failed"
    /\ UNCHANGED <<shutdown_event, bg, db, shutdown_steps, db_writes, clientVars>>
    /\ SupervisorOnly

\* shutdown_event.wait() returns
run_shutdown ==
    /\ run_pc = "wait"
    /\ shutdown_event
    /\ UNCHANGED bg
    /\ RunShutdown

\* disconnect() has returned: the background tasks are cancelled and
\* gathered
run_cancel ==
    /\ run_pc = "disconnect"
    /\ tasks[MainTask].pc = "stopped"
    /\ bg' = CancelAll(bg)
    /\ run_pc' = "gather"
    /\ shutdown_steps' = Append(shutdown_steps, "cancel")
    /\ UNCHANGED <<shutdown_event, db, db_writes, clientVars>>
    /\ SupervisorOnly

\* a background task runs for the first time: while not shutdown_event.is_set()
bg_start ==
    /\ \E t \in BackgroundTasks :
          /\ bg[t] = "created"
          /\ bg' = [bg EXCEPT ![t] = IF shutdown_event THEN "done" ELSE "sleeping"]
    /\ UNCHANGED <<shutdown_event, run_pc, db, shutdown_steps, db_writes, clientVars>>
    /\ SupervisorOnly

\* a background task wakes up, does its work and tests the event again;
\* cleanup_task saves the confidence state of the signal types that have a
\* history
bg_iterate ==
    /\ \E t \in BackgroundTasks, saves \in BOOLEAN :
          /\ bg[t] = "sleeping"
          /\ saves => t = "cleanup_task" /\ Len(db_writes) < MaxWrites
          /\ db_writes' = IF saves THEN Written(db_writes, "periodic") ELSE db_writes
          /\ bg' = [bg EXCEPT ![t] = IF shutdown_event THEN "done" ELSE "sleeping"]
    /\ UNCHANGED <<shutdown_event, run_pc, db, shutdown_steps, clientVars>>
    /\ SupervisorOnly

\* CancelledError is raised in a cancelled background task, which no
\* except clause of the task catches
bg_cancelled ==
    /\ \E t \in BackgroundTasks :
          /\ bg[t] = "cancelling"
          /\ bg' = [bg EXCEPT ![t] = "cancelled"]
    /\ UNCHANGED <<shutdown_event, run_pc, db, shutdown_steps, db_writes, clientVars>>
    /\ SupervisorOnly

\* gather() has returned: _save_state saves the confidence state (nothing
\* when no signal type has a history); an exception ends _save_state
save_confidence ==
    /\ run_pc = "gather"
    /\ Gathered(bg)
    /\ \E outcome \in {"saved", "nothing", "raised"} :
          /\ db_writes' = IF outcome = "nothing" THEN db_writes
                          ELSE Written(db_writes, "confidence")
          /\ shutdown_steps' = IF outcome = "nothing" THEN shutdown_steps
                               ELSE Append(shutdown_steps, "learner")
          /\ run_pc' = IF outcome = "raised" THEN "close" ELSE "save_coins"
    /\ UNCHANGED <<shutdown_event, bg, db, clientVars>>
    /\ SupervisorOnly

\* _save_state: await self.db.save_dashboard_coins(coins)
save_coins ==
    /\ run_pc = "save_coins"
    /\ db_writes' = Written(db_writes, "coins")
    /\ shutdown_steps' = Append(shutdown_steps, "coins")
    /\ run_pc' = "close"
    /\ UNCHANGED <<shutdown_event, bg, db, clientVars>>
    /\ SupervisorOnly

\* await self.db.close()
db_close ==
    /\ run_pc = "close"
    /\ db' = "closed"
    /\ shutdown_steps' = Append(shutdown_steps, "close")
    /\ run_pc' = "complete"
    /\ UNCHANGED <<shutdown_event, bg, db_writes, clientVars>>
    /\ SupervisorOnly

\* websockets.connect() raises once more after MaxAttempts refusals in a
\* row: the counter, which only the delay depends on, is not counted on
connect_failed_again ==
    /\ reconnect_attempts = MaxAttempts
    /\ should_reconnect
    /\ \E t \in DOMAIN tasks :
          /\ tasks[t].pc = "await_connect"
          /\ ~tasks[t].cancel
          /\ tasks' = [tasks EXCEPT ![t].pc = "backoff_sleep"]
    /\ state' = "reconnecting"
    /\ UNCHANGED <<connection, conn_open, is_authenticated, should_reconnect,
                   reconnect_attempts, delay, consecutive_timeouts, receive_task,
                   heartbeat_task, sessions, lostSession, serverRefused, loginFailed>>
    /\ ClientOnly

InitSupervisor ==
    /\ shutdown_event = FALSE
    /\ run_pc = "connect"
    /\ bg = NoTasks
    /\ db = "open"
    /\ shutdown_steps = <<>>
    /\ db_writes = <<>>

\* the steps of the event loop: a task that can run does run
SupervisorProgress ==
    \/ main_connect
    \/ backoff_wake
    \/ disc_recv_done
    \/ disc_hb_done
    \/ disc_closed
    \/ recv_start
    \/ hb_step
    \/ cancel_delivered
    \/ run_connected
    \/ run_not_connected
    \/ run_shutdown
    \/ run_cancel
    \/ bg_start
    \/ bg_iterate
    \/ bg_cancelled
    \/ save_confidence
    \/ save_coins
    \/ db_close

\* websockets.connect() returns or raises (open_timeout)
ConnectReturns == connect_established \/ connect_failed \/ connect_failed_again

\* the answer to the login arrives or the 10 s of _authenticate run out
LoginReturns == auth_ok \/ auth_refused

NextSupervisor ==
    \/ SupervisorProgress
    \/ ConnectReturns
    \/ LoginReturns
    \/ recv_message
    \/ recv_timeout
    \/ recv_closed
    \/ handle_shutdown

(***************************************************************************)
(* SignalTracker and ConfidenceScorer.record_result.  check_outcomes has   *)
(* no suspending await: one call is one action.  Times are time.time() in  *)
(* minutes.                                                                *)
(***************************************************************************)
Abs(x) == IF x < 0 THEN -x ELSE x

\* get_current_price found neither a trade nor a liquidation
NoPrice == -1
\* a price that float() does not take, such as 'n/a': the handlers store the
\* event they are given, and validation reads the record nested under its
\* "data" key when there is one
Unparseable == -2

\* the signal types and directions of the tracked signals
TrackedTypes == {"STOP_HUNT", "ACCUMULATION"}
Directions == {"LONG", "SHORT"}

\* the price zone of the stop hunt a tracked signal carries
PriceZone == <<90, 100>>

\* what the buffers hold for a symbol at a check: the prices of the trades
\* and of the liquidations of the last 60 s, oldest first; 0 is the price of
\* an event whose price reads as 0
Markets ==
    {[trades |-> <<>>, liqs |-> <<>>],
     [trades |-> <<0>>, liqs |-> <<130>>],
     [trades |-> <<130, Unparseable>>, liqs |-> <<>>],
     [trades |-> <<>>, liqs |-> <<60, 85>>],
     [trades |-> <<85, 130>>, liqs |-> <<60>>]}

\* analyze_and_alert: entry, stop loss and target from the price zone
TrackingLevels(direction, price_zone) ==
    LET zone_spread == Abs(price_zone[2] - price_zone[1])
        is_long == direction = "LONG"
        entry == IF is_long THEN price_zone[2] ELSE price_zone[1]
        sl == IF is_long THEN price_zone[1] - (zone_spread * 3) \div 10
              ELSE price_zone[2] + (zone_spread * 3) \div 10
        risk == Abs(entry - sl)
        tp == IF is_long THEN entry + risk * 2 ELSE entry - risk * 2
    IN [entry_price |-> entry, stop_loss |-> sl, target_price |-> tp]

\* SignalTracker.track_signal: the TrackedSignal appended to _pending
TrackedSignal(id, symbol, signal_type, direction, now) ==
    LET levels == TrackingLevels(direction, PriceZone)
    IN [id |-> id, symbol |-> symbol, signal_type |-> signal_type,
        direction |-> direction, entry_price |-> levels.entry_price,
        stop_loss |-> levels.stop_loss, target_price |-> levels.target_price,
        timestamp |-> now, check_after |-> now + check_interval,
        outcome |-> "none", exit_price |-> NoPrice, db_id |-> 0]

\* SignalTracker.get_current_price: float() of the price of the latest trade,
\* else of the latest liquidation, else None; Unparseable stands for the
\* ValueError float() raises
get_current_price(market) ==
    IF market.trades # <<>> THEN market.trades[Len(market.trades)]
    ELSE IF market.liqs # <<>> THEN market.liqs[Len(market.liqs)]
    ELSE NoPrice

\* an evaluation whose halfway mark has to be passed, not reached
evaluate_outcome_past_halfway(tracked, current_price) ==
    LET entry == tracked.entry_price
        target == tracked.target_price
        sl == tracked.stop_loss
    IN
    IF tracked.direction = "LONG"
    THEN IF current_price >= target THEN "WIN"
         ELSE IF current_price <= sl THEN "LOSS"
         ELSE IF 2 * current_price > 2 * entry + (target - entry) THEN "WIN"
         ELSE IF current_price < entry THEN "LOSS"
         ELSE "NEUTRAL"
    ELSE IF current_price <= target THEN "WIN"
         ELSE IF current_price >= sl THEN "LOSS"
         ELSE IF 2 * current_price < 2 * entry - (entry - target) THEN "WIN"
         ELSE IF current_price > entry THEN "LOSS"
         ELSE "NEUTRAL"

\* SignalTracker._evaluate_outcome; halfway = entry + (target - entry) * 0.5,
\* compared here with both sides doubled
evaluate_outcome(tracked, current_price) ==
    LET entry == tracked.entry_price
        target == tracked.target_price
        sl == tracked.stop_loss
    IN
    IF tracked.direction = "LONG"
    THEN IF current_price >= target THEN "WIN"
         ELSE IF current_price <= sl THEN "LOSS"
         ELSE IF 2 * current_price >= 2 * entry + (target - entry) THEN "WIN"
         ELSE IF current_price < entry THEN "LOSS"
         ELSE "NEUTRAL"
    ELSE IF current_price <= target THEN "WIN"
         ELSE IF current_price >= sl THEN "LOSS"
         ELSE IF 2 * current_price <= 2 * entry - (entry - target) THEN "WIN"
         ELSE IF current_price > entry THEN "LOSS"
         ELSE "NEUTRAL"

\* the levels and prices _evaluate_outcome is called with
Levels == 0..MaxLevel
Prices == 1..(MaxLevel + 1)

\* a call of _evaluate_outcome with a positive price
evaluate_outcome_call ==
    /\ called.fn = "none"
    /\ \E direction \in Directions, entry \in Levels, sl \in Levels, target \in Levels,
          current_price \in Prices :
          LET tracked == [direction |-> direction, entry_price |-> entry,
                          stop_loss |-> sl, target_price |-> target]
          IN /\ called' = [fn |-> "_evaluate_outcome", tracked |-> tracked,
                           current_price |-> current_price]
             /\ returned' = evaluate_outcome(tracked, current_price)
    /\ CallOnly

RECURSIVE Gcd(_, _)
Gcd(a, b) == IF b = 0 THEN a ELSE Gcd(b, a % b)

\* a win rate, as the fraction <<numerator, denominator>> in lowest terms
Ratio(n, d) == <<n \div Gcd(n, d), d \div Gcd(n, d)>>

\* the last n elements of a list: l[-n:]
LastN(l, n) == IF Len(l) > n THEN SubSeq(l, Len(l) - n + 1, Len(l)) ELSE l

\* the number of True in a history
Wins(history) == Cardinality({i \in DOMAIN history : history[i]})

(***************************************************************************)
(* ConfidenceScorer.adjust_confidence.  Confidences and boosts are in      *)
(* tenths of a percent, win rates are fractions <<n, d>>, ratios are in    *)
(* percent, volumes in USD.  The metadata is the one build_metadata makes:  *)
(* numbers under 'stop_hunt' and 'order_flow', a list under 'events'; NoPart *)
(* stands for a key that is absent.                                        *)
(***************************************************************************)
NoPart == [absent |-> TRUE]

\* ConfidenceScorer._get_absorption_threshold of a tier 1 symbol
tier1_absorption == 100000

\* ConfidenceScorer.get_recent_trend > 0.75, < 0.25: wins / len(recent) of the
\* last 10 results, 0.5 without results
RecentTrendAbove75(history) ==
    LET recent == LastN(history, 10)
    IN recent # <<>> /\ 4 * Wins(recent) > 3 * Len(recent)

RecentTrendBelow25(history) ==
    LET recent == LastN(history, 10)
    IN recent # <<>> /\ 4 * Wins(recent) < Len(recent)

\* ConfidenceScorer.calculate_quality_boost
calculate_quality_boost(metadata) ==
    LET sh == metadata.stop_hunt
        of == metadata.order_flow
        hunt == IF sh = NoPart THEN 0
                ELSE (IF sh.absorption_volume > tier1_absorption * 5 THEN 20
                      ELSE IF sh.absorption_volume > tier1_absorption * 2 THEN 10
                      ELSE 0)
                     + (IF sh.directional_pct > 85 THEN 20 ELSE 0)
        large_count == IF of = NoPart THEN 0 ELSE of.large_buys + of.large_sells
        flow == IF of = NoPart THEN 0
                ELSE (IF of.buy_ratio > 75 \/ of.buy_ratio < 25 THEN 15
                      ELSE IF of.buy_ratio > 65 \/ of.buy_ratio < 35 THEN 5
                      ELSE 0)
                     + (IF large_count > 10 THEN 15
                        ELSE IF large_count >= 5 THEN 5
                        ELSE 0)
        events == IF metadata.events >= 2 THEN 10 ELSE 0
        boost == hunt + flow + events
    IN IF boost < 50 THEN boost ELSE 50

\* the sum adjust_confidence clamps
Adjusted(sc, base_confidence, signal_type, metadata) ==
    LET win_rate == IF signal_type \in DOMAIN sc.win_rates
                    THEN sc.win_rates[signal_type] ELSE <<1, 2>>
        history == IF signal_type \in DOMAIN sc.signal_history
                   THEN sc.signal_history[signal_type] ELSE <<>>
        n == win_rate[1]
        d == win_rate[2]
    IN base_confidence
       + (IF 10 * n > 7 * d THEN 50
          ELSE IF 10 * n > 6 * d THEN 30
          ELSE IF 10 * n < 4 * d THEN -50
          ELSE IF 2 * n < d THEN -30
          ELSE 0)
       + (IF RecentTrendAbove75(history) THEN 30
          ELSE IF RecentTrendBelow25(history) THEN -30
          ELSE 0)
       + calculate_quality_boost(metadata)

\* an adjustment that is capped at 99 and has no floor
adjust_confidence_without_floor(sc, base_confidence, signal_type, metadata) ==
    LET adjusted == Adjusted(sc, base_confidence, signal_type, metadata)
    IN IF adjusted < 990 THEN adjusted ELSE 990

\* ConfidenceScorer.adjust_confidence: max(50.0, min(adjusted, 99.0))
adjust_confidence(sc, base_confidence, signal_type, metadata) ==
    LET adjusted == Adjusted(sc, base_confidence, signal_type, metadata)
        capped == IF adjusted < 990 THEN adjusted ELSE 990
    IN IF capped > 500 THEN capped ELSE 500

\* what analyze_and_alert hands to adjust_confidence
BaseConfidences == {0, 480, 700, 990, 1100}
AdjustedTypes == {"STOP_HUNT", "ACCUMULATION", "UNLISTED"}
WinRates == {<<3, 10>>, <<9, 20>>, <<1, 2>>, <<13, 20>>, <<4, 5>>}
Histories == UNION {[1..n -> BOOLEAN] : n \in 0..MaxHistory}
Metadatas ==
    [stop_hunt : {NoPart} \cup [absorption_volume : {0, 250000, 600000},
                                directional_pct : {50, 90}],
     order_flow : {NoPart} \cup [buy_ratio : {20, 30, 50, 80},
                                 large_buys : {0, 5, 11}, large_sells : {0}],
     events : {0, 2}]

\* analyze_and_alert: trading_signal.confidence = adjust_confidence(...), the
\* signal is then handed to the validator
adjust_confidence_call ==
    /\ called.fn = "none"
    /\ \E base_confidence \in BaseConfidences, signal_type \in AdjustedTypes,
          win_rate \in WinRates, history \in Histories, metadata \in Metadatas :
          LET sc == [signal_history |-> [t \in TrackedTypes |-> history],
                     win_rates |-> [t \in TrackedTypes |-> win_rate]]
          IN /\ called' = [fn |-> "adjust_confidence", sc |-> sc,
                           base_confidence |-> base_confidence,
                           signal_type |-> signal_type, metadata |-> metadata]
             /\ returned' = adjust_confidence(sc, base_confidence, signal_type, metadata)
    /\ CallOnly

\* ConfidenceScorer.record_result on the scorer sc = [signal_history,
\* win_rates]: the exponential moving average of the win rate of the history
record_result(sc, signal_type, was_successful) ==
    LET history == LastN(Append(sc.signal_history[signal_type], was_successful),
                         HistoryKept)
        old_rate == sc.win_rates[signal_type]
        new_rate == Ratio(old_rate[1] * (10 - LearningRateTenths) * Len(history)
                            + Wins(history) * LearningRateTenths * old_rate[2],
                          old_rate[2] * 10 * Len(history))
    IN [signal_history |-> [sc.signal_history EXCEPT ![signal_type] = history],
        win_rates |-> [sc.win_rates EXCEPT ![signal_type] = new_rate]]

\* tracked.outcome in ("WIN", "LOSS")
Decided(outcome) == outcome \in {"WIN", "LOSS"}

\* check_outcomes assigns to the TrackedSignal object, which _completed holds
\* as well once the object has been recorded: the list with the object as the
\* assignment leaves it
Assigned(list, tracked) ==
    [i \in DOMAIN list |-> IF list[i].id = tracked.id THEN tracked ELSE list[i]]

\* SignalTracker._record_outcome on the tracker st = [still_pending,
\* completed, stats, scorer, outcome_updates, objects, raised]; the update of
\* the database row is a task of its own, noted in outcome_updates
record_outcome(st, tracked) ==
    LET counts == st.stats[tracked.signal_type]
    IN [st EXCEPT
          !.completed = LastN(Append(Assigned(@, tracked), tracked), CompletedKept),
          !.stats = [@ EXCEPT ![tracked.signal_type] =
                        [total |-> counts.total + 1,
                         wins |-> counts.wins + (IF tracked.outcome = "WIN" THEN 1 ELSE 0),
                         losses |-> counts.losses + (IF tracked.outcome = "LOSS" THEN 1 ELSE 0),
                         neutral |-> counts.neutral
                                       + (IF tracked.outcome \in {"WIN", "LOSS"}
                                          THEN 0 ELSE 1)]],
          !.scorer = IF Decided(tracked.outcome)
                     THEN record_result(@, tracked.signal_type, tracked.outcome = "WIN")
                     ELSE @,
          !.outcome_updates = IF tracked.db_id # 0
                              THEN Append(@, [id |-> tracked.id,
                                              outcome |-> tracked.outcome])
                              ELSE @]

\* not (now - tracked.timestamp < self.check_interval * 3)
TooOld(now, tracked) == ~(now - tracked.timestamp < check_interval * 3)

\* the loop has gone past the object `after` of _pending
Passed(st, after) == [st EXCEPT !.objects = Append(@, after)]

\* check_outcomes, the body of the loop for one pending signal; st.objects
\* are the objects of _pending as the loop leaves them, and st.raised says
\* that get_current_price has raised, which ends the loop before
\* `self._pending = still_pending`
check_one(st, tracked, now, market) ==
    IF st.raised
    THEN Passed(st, tracked)
    ELSE IF now < tracked.check_after
    THEN Passed([st EXCEPT !.still_pending = Append(@, tracked)], tracked)
    ELSE LET current_price == get_current_price(market[tracked.symbol])
             deferred == [tracked EXCEPT !.check_after = now + ExtendMinutes]
             neutral == [tracked EXCEPT !.outcome = "NEUTRAL", !.exit_price = 0]
             evaluated == [tracked EXCEPT
                             !.exit_price = current_price,
                             !.outcome = evaluate_outcome(tracked, current_price)]
         IN IF current_price = Unparseable
            THEN Passed([st EXCEPT !.raised = TRUE], tracked)
            ELSE IF current_price = NoPrice \/ current_price <= 0
            THEN IF ~TooOld(now, tracked)
                 THEN Passed([st EXCEPT !.still_pending = Append(@, deferred),
                                        !.completed = Assigned(@, deferred)],
                             deferred)
                 ELSE Passed(record_outcome(st, neutral), neutral)
            ELSE Passed(record_outcome(st, evaluated), evaluated)

\* check_outcomes, the loop over _pending from its i-th signal on
RECURSIVE check_from(_, _, _, _)
check_from(st, i, now, market) ==
    IF i > Len(pending) THEN st
    ELSE check_from(check_one(st, pending[i], now, market), i + 1, now, market)

\* whether db.save_signal returned a row for the n-th signal: every other
\* signal is saved
RowSaved(n) == n % 2 = 1

\* the coins of the signals tracked: the two coins in turn
TrackedCoin(n) == IF n % 2 = 1 THEN "BTCUSDT" ELSE "ETHUSDT"

\* a signal is tracked: analyze_and_alert calls track_signal and, once
\* db.save_signal has returned a row, sets its _db_id.  A signal is tracked
\* while there is time left to see its outcome.
track_signal ==
    /\ tracked_count < MaxTracked
    /\ wallClock + check_interval * 3 + ExtendMinutes + TickMinutes <= MaxClock
    /\ \E symbol \in {TrackedCoin(tracked_count + 1)}, signal_type \in TrackedTypes,
          direction \in Directions, saved \in {RowSaved(tracked_count + 1)} :
          pending' = Append(pending,
                            [TrackedSignal(tracked_count + 1, symbol, signal_type,
                                           direction, wallClock)
                               EXCEPT !.db_id = IF saved THEN tracked_count + 1 ELSE 0])
    /\ tracked_count' = tracked_count + 1
    /\ UNCHANGED <<completed, stats, signal_history, win_rates, outcome_updates,
                   checked, raised_checks>>
    /\ TrackerOnly

\* the coins get_current_price is called for
PendingSymbols == {pending[i].symbol : i \in DOMAIN pending}

\* signal_tracker_task: await self.signal_tracker.check_outcomes(), every
\* 60 s.  The calls made at one reading of the clock are taken as one.  When
\* the loop raises, signal_tracker_task logs the error and _pending is the
\* list it was, of the objects as the loop left them.
check_outcomes ==
    /\ ~checked
    /\ checked' = TRUE
    /\ \E market \in [PendingSymbols -> Markets] :
          LET st == check_from([still_pending |-> <<>>, completed |-> completed,
                                stats |-> stats,
                                scorer |-> [signal_history |-> signal_history,
                                            win_rates |-> win_rates],
                                outcome_updates |-> outcome_updates,
                                objects |-> <<>>, raised |-> FALSE],
                               1, wallClock, market)
          IN /\ st.raised => raised_checks < MaxRaised
             /\ raised_checks' = raised_checks + IF st.raised THEN 1 ELSE 0
             /\ pending' = IF st.raised THEN st.objects ELSE st.still_pending
             /\ completed' = st.completed
             /\ stats' = st.stats
             /\ signal_history' = st.scorer.signal_history
             /\ win_rates' = st.scorer.win_rates
             /\ outcome_updates' = st.outcome_updates
    /\ UNCHANGED tracked_count
    /\ TrackerOnly

\* time passes between two checks, as long as a signal waits or may come
tracker_tick ==
    /\ wallClock + TickMinutes <= MaxClock
    /\ pending # <<>> \/ tracked_count < MaxTracked
    /\ checked
    /\ wallClock' = wallClock + TickMinutes
    /\ checked' = FALSE
    /\ UNCHANGED <<pending, completed, stats, signal_history, win_rates,
                   outcome_updates, tracked_count, raised_checks>>
    /\ UNCHANGED <<recent_signals, signal_cooldowns, recent_hashes,
                   total_validated, total_approved, total_rejected,
                   rejection_reasons, validation, approvals>>
    /\ UNCHANGED <<queueVars, clientVars, pipelineVars, bufferVars, lateVars>>

InitTracker ==
    /\ pending = <<>>
    /\ completed = <<>>
    /\ stats = [t \in TrackedTypes |-> [total |-> 0, wins |-> 0, losses |-> 0,
                                        neutral |-> 0]]
    /\ signal_history = [t \in TrackedTypes |-> <<>>]
    /\ win_rates = [t \in TrackedTypes |-> <<1, 2>>]
    /\ outcome_updates = <<>>
    /\ tracked_count = 0
    /\ checked = FALSE
    /\ raised_checks = 0

NextTracker ==
    \/ track_signal
    \/ check_outcomes
    \/ tracker_tick

RECURSIVE SideVolume(_, _)
(***************************************************************************)
(* OrderFlowAnalyzer.  Volumes are in thousands of USD.  The ratio         *)
(* buy_volume / total_volume is compared exactly: the quotient of two      *)
(* small integers is the float nearest to it, which equals the literal     *)
(* 0.65 or 0.35 exactly when the quotient does.                            *)
(***************************************************************************)
\* the trades of a window: large buys and sells, small sells and buys
TradeKinds ==
    <<[side |-> 2, vol |-> 13], [side |-> 1, vol |-> 13],
      [side |-> 1, vol |-> 7], [side |-> 2, vol |-> 7]>>

\* analyze() has not run on the window
NotAnalyzed ==
    [analyzed |-> FALSE, signal_type |-> "none", buy_volume |-> 0, sell_volume |-> 0,
     large_buys |-> 0, large_sells |-> 0, total_trades |-> 0]

\* analyze() returned None
NoFlowSignal == [NotAnalyzed EXCEPT !.analyzed = TRUE]

\* the sum of the volumes of the trades of one side
SideVolume(trades, side) ==
    IF trades = <<>> THEN 0
    ELSE (IF Head(trades).side = side THEN Head(trades).vol ELSE 0)
         + SideVolume(Tail(trades), side)

\* OrderFlowAnalyzer.calculate_volumes: side 2 is a buy, side 1 a sell
calculate_volumes(trades) == <<SideVolume(trades, 2), SideVolume(trades, 1)>>

\* the number of trades of one side with vol >= large_order_threshold
LargeOrders(trades, side) ==
    Cardinality({i \in DOMAIN trades :
                    /\ trades[i].vol >= large_order_threshold
                    /\ trades[i].side = side})

\* OrderFlowAnalyzer.count_large_orders
count_large_orders(trades) == <<LargeOrders(trades, 2), LargeOrders(trades, 1)>>

\* OrderFlowAnalyzer.determine_signal_type, buy_ratio being buy_volume /
\* total_volume
determine_signal_type(buy_volume, total_volume, large_buys, large_sells) ==
    IF buy_volume * 100 >= AccumulationPct * total_volume /\ large_buys >= MinLargeOrders
    THEN "ACCUMULATION"
    ELSE IF /\ buy_volume * 100 <= DistributionPct * total_volume
            /\ large_sells >= MinLargeOrders
    THEN "DISTRIBUTION"
    ELSE "none"

\* OrderFlowAnalyzer.analyze: the signal, without its confidence
analyze(trades) ==
    LET volumes == calculate_volumes(trades)
        total_volume == volumes[1] + volumes[2]
        large == count_large_orders(trades)
        signal_type == determine_signal_type(volumes[1], total_volume, large[1], large[2])
    IN  IF Len(trades) < MinTrades THEN NoFlowSignal
        ELSE IF total_volume = 0 THEN NoFlowSignal
        ELSE IF signal_type = "none" THEN NoFlowSignal
        ELSE [analyzed |-> TRUE, signal_type |-> signal_type,
              buy_volume |-> volumes[1], sell_volume |-> volumes[2],
              large_buys |-> large[1], large_sells |-> large[2],
              total_trades |-> Len(trades)]

\* a trade comes into the window; the sums and the counts do not depend on
\* the order of the trades, so the windows are built in the order of TradeKinds
flow_trade ==
    /\ Len(flow_trades) < MaxWindow
    /\ \E k \in DOMAIN TradeKinds :
          /\ \A j \in DOMAIN TradeKinds :
                (flow_trades # <<>> /\ flow_trades[Len(flow_trades)] = TradeKinds[j])
                   => j <= k
          /\ flow_trades' = Append(flow_trades, TradeKinds[k])
    /\ flow_signal' = NotAnalyzed
    /\ AnalyzerOnly

\* await self.order_flow_analyzer.analyze(symbol)
flow_analyze ==
    /\ flow_signal' = analyze(flow_trades)
    /\ UNCHANGED flow_trades
    /\ AnalyzerOnly

(***************************************************************************)
(* StopHuntDetector.determine_direction: the volumes of the long (side 1)  *)
(* and of the short (side 2) liquidations are summed; an event of another  *)
(* side counts for neither.  The share is the fraction <<part, total>>.    *)
(***************************************************************************)
\* the liquidations of the window: side and volume of each
LiqKinds == [side : 0..2, vol : 1..2]

RECURSIVE SideLiqVolume(_, _)
\* long_liq_volume (side 1) or short_liq_volume (side 2)
SideLiqVolume(liquidations, side) ==
    IF liquidations = <<>> THEN 0
    ELSE (IF Head(liquidations).side = side THEN Head(liquidations).vol ELSE 0)
         + SideLiqVolume(Tail(liquidations), side)

\* StopHuntDetector.determine_direction
determine_direction(liquidations) ==
    LET long_liq_volume == SideLiqVolume(liquidations, 1)
        short_liq_volume == SideLiqVolume(liquidations, 2)
        total_volume == long_liq_volume + short_liq_volume
    IN IF total_volume = 0 THEN <<"UNKNOWN", <<1, 2>>>>
       ELSE IF long_liq_volume > short_liq_volume
            THEN <<"SHORT_HUNT", <<long_liq_volume, total_volume>>>>
            ELSE <<"LONG_HUNT", <<short_liq_volume, total_volume>>>>

\* StopHuntDetector.analyze: direction, directional_pct =
\* self.determine_direction(liquidations)
determine_direction_call ==
    /\ called.fn = "none"
    /\ \E n \in 0..MaxLiqs : \E liquidations \in [1..n -> LiqKinds] :
          /\ called' = [fn |-> "determine_direction", liquidations |-> liquidations]
          /\ returned' = determine_direction(liquidations)
    /\ CallOnly

InitAnalyzer ==
    /\ flow_trades = <<>>
    /\ flow_signal = NotAnalyzed

NextAnalyzer ==
    \/ flow_trade
    \/ flow_analyze

(***************************************************************************)
(* Dashboard API: check_rate_limit.  _rate_limit_store is a dict, which    *)
(* keeps its keys in the order they were inserted: a sequence of entries   *)
(* [ip, times].  The function has no await: one call is one action.        *)
(***************************************************************************)
\* the client addresses: one more than the store keeps
ClientIps == 1..(RATE_LIMIT_MAX_IPS + 1)

\* the position of the entry of an address in the store, 0 if it has none
IndexOf(store, ip) ==
    IF \E i \in DOMAIN store : store[i].ip = ip
    THEN CHOOSE i \in DOMAIN store : store[i].ip = ip
    ELSE 0

\* _rate_limit_store.get(client_ip, [])
TimesOf(store, ip) ==
    IF IndexOf(store, ip) = 0 THEN <<>> ELSE store[IndexOf(store, ip)].times

\* del _rate_limit_store[ip]
Without(store, ip) == SelectSeq(store, LAMBDA e : e.ip # ip)

\* max(_rate_limit_store[ip]) if _rate_limit_store[ip] else 0
LastRequest(times) ==
    IF times = <<>> THEN 0
    ELSE CHOOSE t \in {times[i] : i \in DOMAIN times} :
            \A i \in DOMAIN times : times[i] <= t

\* the first address of sorted(_rate_limit_store.keys(), key=...): the sort
\* is stable, so among equal keys the one inserted first
OldestIp(store) ==
    LET first == CHOOSE i \in DOMAIN store :
                    /\ \A j \in DOMAIN store :
                          LastRequest(store[i].times) <= LastRequest(store[j].times)
                    /\ \A j \in 1..(i - 1) :
                          LastRequest(store[j].times) > LastRequest(store[i].times)
    IN  store[first].ip

\* for ip in sorted_ips[:n]: del _rate_limit_store[ip]
RECURSIVE EvictOldest(_, _)
EvictOldest(store, n) ==
    IF n <= 0 \/ store = <<>> THEN store
    ELSE EvictOldest(Without(store, OldestIp(store)), n - 1)

\* the store after the cleanup of the caller's entry: the times younger than
\* the window are kept, an entry left empty is deleted
CleanedStore(store, ip, now) ==
    LET kept == SelectSeq(TimesOf(store, ip), LAMBDA t : now - t < RateWindow) IN
    IF kept = <<>> THEN Without(store, ip)
    ELSE [store EXCEPT ![IndexOf(store, ip)].times = kept]

\* the store after the eviction that bounds the number of addresses
BoundedStore(store) ==
    IF Len(store) > RATE_LIMIT_MAX_IPS
    THEN EvictOldest(store, Len(store) - RATE_LIMIT_MAX_IPS)
    ELSE store

\* _rate_limit_store[client_ip].append(now): a defaultdict, the entry is
\* made when missing
Recorded(store, ip, now) ==
    IF IndexOf(store, ip) = 0 THEN Append(store, [ip |-> ip, times |-> <<now>>])
    ELSE [store EXCEPT ![IndexOf(store, ip)].times = Append(@, now)]

\* check_rate_limit(request): the store it leaves, and whether it returns
\* rather than raises 429
RateChecked(client_ip) ==
    LET store == BoundedStore(CleanedStore(rate_limit_store, client_ip, api_now))
        entries == TimesOf(store, client_ip)
    IN  IF Len(entries) >= RATE_LIMIT
        THEN [store |-> store, passed |-> FALSE]
        ELSE [store |-> Recorded(store, client_ip, api_now), passed |-> TRUE]

\* a GET endpoint with Depends(check_rate_limit)
check_rate_limit ==
    /\ Len(responses) < MaxRequests
    /\ \E client_ip \in ClientIps :
          /\ rate_limit_store' = RateChecked(client_ip).store
          /\ responses' =
                Append(responses,
                       [ip |-> client_ip, at |-> api_now,
                        status |-> IF RateChecked(client_ip).passed THEN 200 ELSE 429])
    /\ UNCHANGED api_now
    /\ LimiterOnly

\* time.time() moves on
api_tick ==
    /\ api_now + ApiTick <= MaxApiClock
    /\ api_now' = api_now + ApiTick
    /\ UNCHANGED <<rate_limit_store, responses>>
    /\ LimiterOnly

InitLimiter ==
    /\ rate_limit_store = <<>>
    /\ api_now = 0
    /\ responses = <<>>

NextLimiter ==
    \/ check_rate_limit
    \/ api_tick

(***************************************************************************)
(* Dashboard API: the coin endpoints.  FastAPI resolves the dependencies   *)
(* of an endpoint in the order of its parameters, verify_token before      *)
(* check_rate_limit, and runs the endpoint only if none raised.  An        *)
(* exception that is not an HTTPException is answered with status 500.     *)
(***************************************************************************)
\* no Authorization header
NoHeader == [present |-> FALSE, scheme |-> "", token |-> ""]
\* "<scheme> <token>"
Header(scheme, token) == [present |-> TRUE, scheme |-> scheme, token |-> token]

\* a token with a character outside ASCII, as the server decodes the bytes
\* of a header
NonAsciiToken == "s\\xe9cret"

\* the Authorization headers of the requests
Headers ==
    {NoHeader, Header("Basic", "secret"), Header("Bearer", "secret"),
     Header("Bearer", "wrong"), Header("Bearer", NonAsciiToken)}

\* hmac.compare_digest(provided, API_TOKEN) on two str: TypeError unless both
\* are ASCII, else whether they are equal
compare_digest(provided, token) ==
    IF NonAsciiToken \in {provided, token} THEN "TypeError"
    ELSE IF provided = token THEN "True"
    ELSE "False"

\* verify_token(authorization): the status it answers with, 200 if it returns
verify_token(authorization) ==
    IF api_token = "" THEN 200
    ELSE IF ~authorization.present \/ authorization.scheme # "Bearer" THEN 401
    ELSE IF compare_digest(authorization.token, api_token) = "TypeError" THEN 500
    ELSE IF compare_digest(authorization.token, api_token) = "False" THEN 403
    ELSE 200

\* the dependencies of a coin endpoint: the status they answer with, 200 if
\* the endpoint runs, and the store check_rate_limit leaves
Depends(authorization, client_ip) ==
    LET limit == RateChecked(client_ip) IN
    IF verify_token(authorization) # 200
    THEN [status |-> verify_token(authorization), store |-> rate_limit_store]
    ELSE IF ~limit.passed THEN [status |-> 429, store |-> limit.store]
    ELSE [status |-> 200, store |-> limit.store]

\* the addresses the coin requests come from
CoinClients == {1}

\* the symbols the requests name
SymbolInputs == {"btc", "ETHUSDT", "eth-usdt"}

\* add_coin: upper, strip, one suffix off, ^[A-Z0-9]{1,10}$, "USDT" back on;
\* "" when the format is refused
AddedSymbol(text) ==
    IF text = "btc" THEN "BTCUSDT"
    ELSE IF text = "ETHUSDT" THEN "ETHUSDT"
    ELSE ""

\* _validate_symbol: upper, strip, ^[A-Z0-9]{3,20}$; "" when it is refused
ValidatedSymbol(text) ==
    IF text = "btc" THEN "BTC"
    ELSE IF text = "ETHUSDT" THEN "ETHUSDT"
    ELSE ""

\* what a coin endpoint leaves alone
CoinsOnly ==
    /\ UNCHANGED <<queueVars, validatorVars, clientVars, bufferVars, trackerVars,
                   analyzerVars, supervisorVars, callVars, subscriptionVars,
                   threadVars>>
    /\ UNCHANGED <<loopTime, last_analysis, lock_holder, lock_waiters, ready, atasks,
                   dashboard_signals, fused, detector_starts>>
    /\ UNCHANGED <<api_now, responses, api_token>>

\* the answer to a request
Answer(endpoint, authorization, status) ==
    api_response' = [endpoint |-> endpoint, authorization |-> authorization,
                     status |-> status]

\* POST /api/coins/add
post_add_coin ==
    /\ Len(subscription_queue) < MaxPending
    /\ \E authorization \in Headers, client_ip \in CoinClients, text \in SymbolInputs :
          LET deps == Depends(authorization, client_ip)
              symbol == AddedSymbol(text)
          IN  /\ rate_limit_store' = deps.store
              /\ IF deps.status # 200
                 THEN /\ Answer("add", authorization, deps.status)
                      /\ UNCHANGED <<coins, subscription_queue>>
                 ELSE IF symbol = "" \/ coins[symbol] # "absent"
                 THEN /\ Answer("add", authorization, 400)
                      /\ UNCHANGED <<coins, subscription_queue>>
                 ELSE /\ Answer("add", authorization, 200)
                      /\ coins' = [coins EXCEPT ![symbol] = "active"]
                      /\ subscription_queue' =
                            Append(subscription_queue,
                                   [action |-> "subscribe", symbol |-> symbol])
    /\ CoinsOnly

\* DELETE /api/coins/remove/{symbol}
delete_remove_coin ==
    /\ Len(subscription_queue) < MaxPending
    /\ \E authorization \in Headers, client_ip \in CoinClients, text \in SymbolInputs :
          LET deps == Depends(authorization, client_ip)
              symbol == ValidatedSymbol(text)
          IN  /\ rate_limit_store' = deps.store
              /\ IF deps.status # 200
                 THEN /\ Answer("remove", authorization, deps.status)
                      /\ UNCHANGED <<coins, subscription_queue>>
                 ELSE IF symbol = ""
                 THEN /\ Answer("remove", authorization, 400)
                      /\ UNCHANGED <<coins, subscription_queue>>
                 ELSE /\ Answer("remove", authorization, 200)
                      /\ coins' = [sym \in DOMAIN coins |->
                                      IF sym = symbol THEN "absent" ELSE coins[sym]]
                      /\ subscription_queue' =
                            Append(subscription_queue,
                                   [action |-> "unsubscribe", symbol |-> symbol])
    /\ CoinsOnly

\* PATCH /api/coins/{symbol}/toggle
patch_toggle_coin ==
    /\ \E authorization \in Headers, client_ip \in CoinClients, text \in SymbolInputs,
          active \in BOOLEAN :
          LET deps == Depends(authorization, client_ip)
              symbol == ValidatedSymbol(text)
          IN  /\ rate_limit_store' = deps.store
              /\ IF deps.status # 200
                 THEN /\ Answer("toggle", authorization, deps.status)
                      /\ UNCHANGED coins
                 ELSE IF symbol = ""
                 THEN /\ Answer("toggle", authorization, 400)
                      /\ UNCHANGED coins
                 ELSE IF symbol \notin DOMAIN coins \/ coins[symbol] = "absent"
                 THEN /\ Answer("toggle", authorization, 404)
                      /\ UNCHANGED coins
                 ELSE /\ Answer("toggle", authorization, 200)
                      /\ coins' = [coins EXCEPT
                                      ![symbol] = IF active THEN "active" ELSE "inactive"]
    /\ UNCHANGED subscription_queue
    /\ CoinsOnly

\* get_pending_subscriptions(), called by the supervisor: the queue is drained
get_pending_subscriptions ==
    /\ subscription_queue # <<>>
    /\ subscription_queue' = <<>>
    /\ UNCHANGED <<coins, rate_limit_store, api_response>>
    /\ CoinsOnly

\* no request answered yet
NoResponse == [endpoint |-> "none", authorization |-> NoHeader, status |-> 0]

InitDashboard ==
    /\ api_token \in {"", "secret"}
    /\ subscription_queue = <<>>
    /\ api_response = NoResponse

NextCoins ==
    \/ post_add_coin
    \/ delete_remove_coin
    \/ patch_toggle_coin
    \/ get_pending_subscriptions
    \/ api_tick

(***************************************************************************)
(* The trade subscriptions of TeleglasPro: on_connect, the liquidation     *)
(* handler's discovery of coins, and dynamic_subscription_task.  The       *)
(* stream client is what the supervisor sees of it: is_connected() and     *)
(* whether send_message returned True.                                     *)
(***************************************************************************)
\* connect() has established a session and awaits the on_connect callback:
\* a subscribe frame per configured coin, the coin recorded when
\* send_message returned True
on_connect ==
    /\ ~stream_up
    /\ stream_session < MaxStreams
    /\ stream_up' = TRUE
    /\ stream_session' = stream_session + 1
    /\ \E sent \in SUBSET trade_symbols :
          /\ trade_subscribed' = trade_subscribed \cup sent
          /\ session_frames' = sent
    /\ UNCHANGED <<discovered_symbols, subscription_queue>>
    /\ SubscriptionsOnly

\* the session ends: the server or the network closes the connection
stream_lost ==
    /\ stream_up
    /\ stream_session < MaxStreams
    /\ stream_up' = FALSE
    /\ session_frames' = {}
    /\ UNCHANGED <<trade_subscribed, discovered_symbols, stream_session,
                   subscription_queue>>
    /\ SubscriptionsOnly

\* _handle_liquidation_message, its tracking of newly discovered coins (the
\* buffering and the analysis it starts are handle_liquidation): a valid
\* liquidation of a coin that is neither configured nor discovered yet
_handle_liquidation_message ==
    /\ \E symbol \in Symbols :
          /\ symbol \notin discovered_symbols
          /\ symbol \notin trade_symbols
          /\ discovered_symbols' = discovered_symbols \cup {symbol}
    /\ UNCHANGED <<trade_subscribed, stream_up, stream_session, session_frames,
                   subscription_queue>>
    /\ SubscriptionsOnly

\* the loop of dynamic_subscription_task over the drained requests, in their
\* order: a subscribe of a coin that is not recorded and an unsubscribe of a
\* recorded one send a frame, and the record follows when send_message
\* returned True (sent); every other request is passed over
RECURSIVE ApplyRequests(_, _, _)
ApplyRequests(requests, subs, sent) ==
    IF requests = <<>> THEN subs
    ELSE LET req == Head(requests)
             symbol == req.symbol
             after ==
                IF req.action = "subscribe" /\ symbol \notin subs.recorded
                THEN IF sent
                     THEN [recorded |-> subs.recorded \cup {symbol},
                           frames |-> subs.frames \cup {symbol}]
                     ELSE subs
                ELSE IF req.action = "unsubscribe" /\ symbol \in subs.recorded
                THEN IF sent
                     THEN [recorded |-> subs.recorded \ {symbol},
                           frames |-> subs.frames \ {symbol}]
                     ELSE subs
                ELSE subs
         IN  ApplyRequests(Tail(requests), after, sent)

\* one iteration of dynamic_subscription_task: the dashboard's requests are
\* drained and applied, then, every 300 s (due), each discovered coin that
\* is not recorded and has three liquidations in the window (active) is
\* subscribed.  sends_ok: connection.send raises nothing in this iteration.
\* run() creates the task once connect() has returned True
dynamic_subscription_task ==
    /\ stream_session > 0
    /\ \E sends_ok \in BOOLEAN, due \in BOOLEAN, active \in SUBSET discovered_symbols :
          LET sent == stream_up /\ sends_ok
              drained == ApplyRequests(subscription_queue,
                                       [recorded |-> trade_subscribed,
                                        frames |-> session_frames], sent)
              found == IF due /\ sent THEN active \ drained.recorded ELSE {}
          IN  /\ trade_subscribed' = drained.recorded \cup found
              /\ session_frames' = drained.frames \cup found
    /\ subscription_queue' = <<>>
    /\ UNCHANGED <<discovered_symbols, stream_up, stream_session>>
    /\ SubscriptionsOnly

InitSubscriptions ==
    /\ trade_subscribed = {}
    /\ discovered_symbols = {}
    /\ stream_up = FALSE
    /\ stream_session = 0
    /\ session_frames = {}

NextSubscriptions ==
    \/ on_connect
    \/ stream_lost
    \/ _handle_liquidation_message
    \/ dynamic_subscription_task
    \/ post_add_coin
    \/ delete_remove_coin

(***************************************************************************)
(* TeleglasPro.analyze_and_alert.  One task per triggering message; an     *)
(* action is the run of one task from one suspending await to the next.    *)
(* The detectors, the generator, the scorer and the validator do not       *)
(* suspend; alert_queue.add and db.save_signal do.                         *)
(***************************************************************************)
\* where an analysis task is suspended:
\*   created     the task has not run yet
\*   lock_wait   async with self.analysis_locks[symbol], the lock being held
\*   add_await   await self.alert_queue.add(...)
\*   db_await    await self.db.save_signal(...)
\*   done        the coroutine has ended
InsidePcs == {"add_await", "db_await"}


\* the latest OI and funding snapshots of a base symbol: none yet, funding
\* +0.08% with OI up 6.5%, funding -0.03% with OI flat
MarketData ==
    {[has_oi |-> FALSE, oi_change_pct |-> 0, has_funding |-> FALSE, current_rate |-> 0],
     [has_oi |-> TRUE, oi_change_pct |-> 65, has_funding |-> TRUE, current_rate |-> 80],
     [has_oi |-> TRUE, oi_change_pct |-> 0, has_funding |-> TRUE, current_rate |-> -30]}

\* len(self._analysis_tasks): done tasks are discarded by their callback
LiveAnalyses == {t \in DOMAIN atasks : atasks[t].pc # "done"}

\* a lock that lets every task in
CanAcquireAlways(sym) == TRUE

\* asyncio.Lock.acquire(): taken at once only if the lock is free and nobody
\* waits for it
CanAcquire(sym) == lock_holder[sym] = 0 /\ lock_waiters[sym] = <<>>

\* 'confidence': int(trading_signal.confidence)
DashboardEntry(sig) ==
    [symbol |-> sig.symbol, type |-> sig.signal_type,
     confidence |-> sig.confidence \div 10]

\* system_state["signals"].append(...); keep only the last 200
KeepLast(l) ==
    IF Len(l) > MaxDashboardSignals
    THEN SubSeq(l, Len(l) - MaxDashboardSignals + 1, Len(l))
    ELSE l

\* the last two elements of a list
LastTwo(l) == IF Len(l) > 2 THEN SubSeq(l, Len(l) - 1, Len(l)) ELSE l

\* the signals the generator fuses for a symbol, with the confidence the
\* scorer has adjusted
FusedSignals(sym) ==
    {[s EXCEPT !.symbol = sym] :
        s \in {x \in Signals : x.direction = "LONG" /\ x.confidence \in {690, 700}}}

\* a coin entry that is read as active whatever its flag
is_coin_active_ignoring_flag(sym) == TRUE

\* _is_coin_active: a coin without an entry counts as active
is_coin_active(sym) ==
    IF coins[sym] # "absent" THEN coins[sym] = "active" ELSE TRUE

\* MarketContextBuffer._assess_funding_alignment, the rate in units of 0.001%
assess_funding_alignment(funding_rate, direction) ==
    IF Abs(funding_rate) < 10 THEN "NEUTRAL"
    ELSE IF direction = "LONG"
    THEN IF funding_rate > 50 THEN "CAUTION"
         ELSE IF funding_rate > 0 THEN "NEUTRAL"
         ELSE "FAVORABLE"
    ELSE IF direction = "SHORT"
    THEN IF funding_rate < -50 THEN "CAUTION"
         ELSE IF funding_rate < 0 THEN "NEUTRAL"
         ELSE "FAVORABLE"
    ELSE "NEUTRAL"

\* MarketContextBuffer._assess_oi_alignment, the change in tenths of a percent
assess_oi_alignment(change_1h) ==
    IF change_1h > 50 THEN "SQUEEZE_RISK"
    ELSE IF change_1h > 20 THEN "CONFIRMATION"
    ELSE IF change_1h < -10 THEN "WEAK"
    ELSE "NEUTRAL"

\* MarketContextBuffer._assess_combined
assess_combined(funding_alignment, oi_alignment) ==
    IF funding_alignment = "CAUTION" THEN "UNFAVORABLE"
    ELSE IF oi_alignment = "SQUEEZE_RISK" THEN "NEUTRAL"
    ELSE IF funding_alignment = "FAVORABLE"
    THEN IF oi_alignment \in {"CONFIRMATION", "NEUTRAL"} THEN "FAVORABLE"
         ELSE "NEUTRAL"
    ELSE "NEUTRAL"

\* MarketContextBuffer.evaluate_context on the latest snapshots of a base
\* symbol: no context when there is neither an OI nor a funding snapshot
evaluate_context(md, signal_direction) ==
    LET current_funding == IF md.has_funding THEN md.current_rate ELSE 0
        oi_change_1h == IF md.has_oi THEN md.oi_change_pct ELSE 0
        funding_alignment == assess_funding_alignment(current_funding, signal_direction)
        oi_alignment == assess_oi_alignment(oi_change_1h)
    IN
    IF ~md.has_oi /\ ~md.has_funding
    THEN [has_data |-> FALSE, funding_alignment |-> "NEUTRAL",
          oi_alignment |-> "NEUTRAL", combined_assessment |-> "NEUTRAL"]
    ELSE [has_data |-> TRUE, funding_alignment |-> funding_alignment,
          oi_alignment |-> oi_alignment,
          combined_assessment |-> assess_combined(funding_alignment, oi_alignment)]

\* a filter whose strict mode lets pass what the normal mode lets pass
evaluate_strict_as_normal(mode, md, signal_direction) ==
    LET context == evaluate_context(md, signal_direction)
        assessment == context.combined_assessment
    IN
    IF ~context.has_data
    THEN [passed |-> TRUE, assessment |-> "NEUTRAL", confidence_adjustment |-> 0]
    ELSE [passed |-> IF mode = "permissive" THEN TRUE
                     ELSE assessment # "UNFAVORABLE",
          assessment |-> assessment,
          confidence_adjustment |->
              IF assessment = "FAVORABLE" THEN 50
              ELSE IF assessment = "UNFAVORABLE" THEN -100
              ELSE IF context.funding_alignment = "FAVORABLE" THEN 20
              ELSE IF context.oi_alignment = "CONFIRMATION" THEN 20
              ELSE IF context.oi_alignment = "SQUEEZE_RISK" THEN -30
              ELSE 0]

\* MarketContextFilter.evaluate: the FilterResult, the adjustment in tenths
evaluate(mode, md, signal_direction) ==
    LET context == evaluate_context(md, signal_direction)
        assessment == context.combined_assessment
    IN
    IF ~context.has_data
    THEN [passed |-> TRUE, assessment |-> "NEUTRAL", confidence_adjustment |-> 0]
    ELSE [passed |-> IF mode = "strict" THEN assessment = "FAVORABLE"
                     ELSE IF mode = "permissive" THEN TRUE
                     ELSE assessment # "UNFAVORABLE",
          assessment |-> assessment,
          confidence_adjustment |->
              IF assessment = "FAVORABLE" THEN 50
              ELSE IF assessment = "UNFAVORABLE" THEN -100
              ELSE IF context.funding_alignment = "FAVORABLE" THEN 20
              ELSE IF context.oi_alignment = "CONFIRMATION" THEN 20
              ELSE IF context.oi_alignment = "SQUEEZE_RISK" THEN -30
              ELSE 0]

\* the modes a filter is made with
Modes == {"strict", "normal", "permissive"}

\* the latest snapshots of the base symbol a signal is evaluated against: the
\* OI change in tenths of a percent, the funding rate in units of 0.001%
ContextInputs ==
    [has_oi : BOOLEAN, oi_change_pct : {-20, 0, 30, 65},
     has_funding : BOOLEAN, current_rate : {-80, -30, 0, 30, 80}]

\* a call of MarketContextFilter.evaluate
evaluate_call ==
    /\ called.fn = "none"
    /\ \E mode \in Modes, md \in ContextInputs, signal_direction \in {"LONG", "SHORT"} :
          /\ called' = [fn |-> "evaluate", mode |-> mode, md |-> md,
                        signal_direction |-> signal_direction]
          /\ returned' = evaluate(mode, md, signal_direction)
    /\ CallOnly

\* the task leaves the critical section (or ends before it): the lock is
\* released if it holds it
Leave(t, tk, held) ==
    /\ atasks' = [tk EXCEPT ![t].pc = "done", ![t].now = 0, ![t].context = "none"]
    /\ lock_holder' = IF held THEN [lock_holder EXCEPT ![tk[t].symbol] = 0]
                      ELSE lock_holder

\* the tracking at the end of the section: db.save_signal is awaited when the
\* signal carries a price zone
Track(t, tk) ==
    \E hasZone \in BOOLEAN :
        IF hasZone
        THEN /\ atasks' = [tk EXCEPT ![t].pc = "db_await", ![t].context = "none"]
             /\ lock_holder' = [lock_holder EXCEPT ![tk[t].symbol] = t]
        ELSE Leave(t, tk, TRUE)

\* the critical section of analyze_and_alert from the lock to its first
\* suspension, run by task t whose reading of the clock was now
CriticalSection(t, now) ==
    LET sym == atasks[t].symbol
        tk  == [atasks EXCEPT ![t].now = now]
    IN
    /\ last_analysis' = (sym :> now) @@ last_analysis
    /\ detector_starts' = [detector_starts EXCEPT ![sym] = LastTwo(Append(@, [at |-> loopTime, task |-> t]))]
    /\ \/ \* signal_generator.generate returns None
          /\ Leave(t, tk, TRUE)
          /\ UNCHANGED <<recent_signals, signal_cooldowns, recent_hashes,
                         total_validated, total_approved, total_rejected,
                         rejection_reasons, validation, approvals,
                         dashboard_signals, fused>>
       \/ \E sig \in FusedSignals(sym) :
             /\ fused' = fused + 1
             /\ validate(sig)
             /\ IF validation'.valid
                THEN /\ dashboard_signals' =
                            KeepLast(Append(dashboard_signals, DashboardEntry(sig)))
                     /\ IF is_coin_active(sym)
                        THEN \* the market of the signal's base symbol, which
                             \* the section does not look at
                             \E md \in MarketData :
                                /\ atasks' = [tk EXCEPT
                                       ![t].pc = "add_await",
                                       ![t].context =
                                           evaluate_context(md, sig.direction).combined_assessment]
                                /\ lock_holder' = [lock_holder EXCEPT ![sym] = t]
                        ELSE Track(t, tk)
                ELSE /\ Leave(t, tk, TRUE)
                     /\ UNCHANGED dashboard_signals

(***************************************************************************)
(* BufferManager and the two message handlers that feed it.                *)
(***************************************************************************)
\* no cleanup_old_data since the last insert
NotCleaned == [age |-> 0, at |-> 0, again |-> FALSE]

\* a ring that keeps every event
RingAppendUnbounded(buffer, maxlen, event) == Append(buffer, event)

\* deque(maxlen=...).append(event): a full deque drops its leftmost element
RingAppend(buffer, maxlen, event) ==
    IF Len(buffer) >= maxlen
    THEN Append(Tail(buffer), event)
    ELSE Append(buffer, event)

\* the ring of a symbol; add_liquidation and add_trade create it when missing
BufferOf(buffers, symbol) ==
    IF symbol \in DOMAIN buffers THEN buffers[symbol] ELSE <<>>

\* buffers[symbol] = ring
WithBuffer(buffers, symbol, ring) ==
    [sym \in DOMAIN buffers \cup {symbol} |->
        IF sym = symbol THEN ring ELSE buffers[sym]]

\* the event as the buffer stores it: the handlers' events carry "time" but
\* no "timestamp", which add_liquidation and add_trade set from the clock;
\* seq tells the events of a channel apart
Stamped(seq) == [seq |-> seq, timestamp |-> timeMs]

\* BufferManager.add_liquidation
add_liquidation(symbol, event) ==
    /\ dropped_liquidations' =
          IF Len(BufferOf(liquidation_buffers, symbol)) >= max_liquidations
          THEN dropped_liquidations + 1
          ELSE dropped_liquidations
    /\ liquidation_buffers' =
          WithBuffer(liquidation_buffers, symbol,
                     RingAppend(BufferOf(liquidation_buffers, symbol),
                                max_liquidations, event))
    /\ total_liquidations' = total_liquidations + 1

\* BufferManager.add_trade
add_trade(symbol, event) ==
    /\ dropped_trades' =
          IF Len(BufferOf(trade_buffers, symbol)) >= max_trades
          THEN dropped_trades + 1
          ELSE dropped_trades
    /\ trade_buffers' =
          WithBuffer(trade_buffers, symbol,
                     RingAppend(BufferOf(trade_buffers, symbol), max_trades, event))
    /\ total_trades' = total_trades + 1

\* a handler that starts an analysis whatever the number in flight
UnderCapAlways == TRUE

\* len(self._analysis_tasks) < self.max_concurrent_analysis
UnderCap == Cardinality(LiveAnalyses) < max_concurrent_analysis

\* the analyses that have run and are suspended in an await
InProgress == {t \in LiveAnalyses : atasks[t].pc # "created"}

\* a handler that awaits analyze_and_alert(symbol) where the code makes a task
\* of it
CreateTaskAwaited(sym) ==
    /\ LiveAnalyses = {}
    /\ atasks' = Append(atasks, [symbol |-> sym, now |-> 0, pc |-> "created",
                                 context |-> "none", during |-> 0])
    /\ ready' = Append(ready, [kind |-> "start", task |-> Len(atasks) + 1,
                               symbol |-> sym])

\* asyncio.create_task(self.analyze_and_alert(symbol)), resource-limited;
\* `during` keeps the number of analyses in progress when the task was made
CreateTask(sym) ==
    IF UnderCap
    THEN /\ atasks' = Append(atasks, [symbol |-> sym, now |-> 0, pc |-> "created",
                                      context |-> "none",
                                      during |-> Cardinality(InProgress)])
         /\ ready' = Append(ready, [kind |-> "start", task |-> Len(atasks) + 1,
                                    symbol |-> sym])
    ELSE UNCHANGED <<atasks, ready>>

\* the handlers are given MaxEvents events, of which MaxAnalyses start a task;
\* an event that starts none has come while the cap was reached
MoreEvents ==
    /\ total_liquidations + total_trades < MaxEvents
    /\ \/ Len(atasks) < MaxAnalyses
       \/ Cardinality(LiveAnalyses) >= max_concurrent_analysis

\* _handle_liquidation_message, for one valid event of the message: the
\* liquidation channel carries every coin
handle_liquidation ==
    /\ MoreEvents
    /\ \E sym \in Symbols :
          /\ add_liquidation(sym, Stamped(total_liquidations + 1))
          /\ CreateTask(sym)
    /\ cleaned' = NotCleaned
    /\ validation_count' = validation_count + 1
    /\ UNCHANGED <<timeMs, trade_buffers, total_trades, dropped_trades, error_count>>
    /\ UNCHANGED <<loopTime, last_analysis, lock_holder, lock_waiters,
                   dashboard_signals, coins, fused, detector_starts>>
    /\ IntakeOnly

\* _handle_trade_message, for one valid event of the message: trades come
\* for the subscribed coins
handle_trade ==
    /\ MoreEvents
    /\ \E sym \in trade_symbols :
          /\ add_trade(sym, Stamped(total_trades + 1))
          /\ CreateTask(sym)
    /\ cleaned' = NotCleaned
    /\ validation_count' = validation_count + 1
    /\ UNCHANGED <<timeMs, liquidation_buffers, total_liquidations,
                   dropped_liquidations, error_count>>
    /\ UNCHANGED <<loopTime, last_analysis, lock_holder, lock_waiters,
                   dashboard_signals, coins, fused, detector_starts>>
    /\ IntakeOnly

\* a cleanup that also takes the oldest event it should keep
RecentButOldest(buffer, cutoff_time) ==
    LET kept == SelectSeq(buffer, LAMBDA event : event.timestamp >= cutoff_time)
    IN  IF kept = <<>> THEN kept ELSE Tail(kept)

\* the events of a ring that are not older than the cutoff
Recent(buffer, cutoff_time) ==
    SelectSeq(buffer, LAMBDA event : event.timestamp >= cutoff_time)

\* the ages cleanup_old_data is called with, seconds
Ages == {1, 2}

\* BufferManager.cleanup_old_data(max_age_seconds)
cleanup_old_data ==
    /\ \E max_age_seconds \in Ages :
          LET cutoff_time == timeMs - max_age_seconds * MsPerSecond IN
          /\ liquidation_buffers' =
                [sym \in DOMAIN liquidation_buffers |->
                    Recent(liquidation_buffers[sym], cutoff_time)]
          /\ trade_buffers' =
                [sym \in DOMAIN trade_buffers |-> Recent(trade_buffers[sym], cutoff_time)]
          /\ cleaned' = [age |-> max_age_seconds, at |-> timeMs,
                         again |-> cleaned.age = max_age_seconds /\ cleaned.at = timeMs]
    /\ UNCHANGED <<timeMs, total_liquidations, total_trades, dropped_liquidations,
                   dropped_trades, validation_count, error_count>>
    /\ UNCHANGED pipelineVars
    /\ IntakeOnly

\* time passes: a millisecond, or a second
time_tick ==
    /\ \E d \in {1, MsPerSecond} :
          /\ d = 1 => timeMs % MsPerSecond < MaxOddMs
          /\ timeMs + d <= MaxTimeMs
          /\ timeMs' = timeMs + d
    /\ UNCHANGED <<liquidation_buffers, trade_buffers, total_liquidations,
                   total_trades, dropped_liquidations, dropped_trades,
                   validation_count, error_count, cleaned>>
    /\ UNCHANGED pipelineVars
    /\ IntakeOnly

(***************************************************************************)
(* BufferManager used from several threads.  add_liquidation and add_trade *)
(* hold self._lock while they touch the buffers; cleanup_old_data takes no *)
(* lock, so a step of it is what runs between two switches of thread: the  *)
(* iteration over a deque, which raises RuntimeError when the deque was    *)
(* appended to in between, and the assignment of the new deque.            *)
(***************************************************************************)
\* the buffers in the order of the two loops of cleanup_old_data
CleanupOrder ==
    <<<<"liquidation", "BTCUSDT">>, <<"liquidation", "ETHUSDT">>,
      <<"trade", "BTCUSDT">>, <<"trade", "ETHUSDT">>>>

BufferKeys == {CleanupOrder[i] : i \in DOMAIN CleanupOrder}

\* the deque of a buffer, and its maxlen
Ring(key) ==
    IF key[1] = "liquidation" THEN liquidation_buffers[key[2]]
    ELSE trade_buffers[key[2]]

MaxLenOf(key) == IF key[1] = "liquidation" THEN max_liquidations ELSE max_trades

\* no thread is inside cleanup_old_data, after so many calls of it
Idle(calls) ==
    [pc |-> "idle", todo |-> <<>>, cutoff_time |-> 0, recent_events |-> <<>>,
     mutated |-> FALSE, calls |-> calls]

\* what an append to a buffer does to the iteration of the cleaning thread
Appended(key) ==
    IF cleaner.pc = "iterate" /\ Head(cleaner.todo) = key
    THEN [cleaner EXCEPT !.mutated = TRUE]
    ELSE cleaner

\* a thread calls add_liquidation, the clock giving the timestamp
thread_add_liquidation ==
    /\ total_liquidations + total_trades < MaxEvents
    /\ \E symbol \in Symbols :
          LET key == <<"liquidation", symbol>>
              event == Stamped(total_liquidations + 1)
          IN  /\ add_liquidation(symbol, event)
              /\ inserted' = [inserted EXCEPT ![key] = Append(@, event)]
              /\ cleaner' = Appended(key)
    /\ UNCHANGED <<timeMs, trade_buffers, total_trades, dropped_trades,
                   validation_count, error_count, cleaned, newest_cutoff>>
    /\ ThreadsOnly

\* a thread calls add_trade
thread_add_trade ==
    /\ total_liquidations + total_trades < MaxEvents
    /\ \E symbol \in Symbols :
          LET key == <<"trade", symbol>>
              event == Stamped(total_trades + 1)
          IN  /\ add_trade(symbol, event)
              /\ inserted' = [inserted EXCEPT ![key] = Append(@, event)]
              /\ cleaner' = Appended(key)
    /\ UNCHANGED <<timeMs, liquidation_buffers, total_liquidations,
                   dropped_liquidations, validation_count, error_count, cleaned,
                   newest_cutoff>>
    /\ ThreadsOnly

\* what the steps of the cleaning thread leave alone
CleanerOnly ==
    /\ UNCHANGED <<timeMs, total_liquidations, total_trades, dropped_liquidations,
                   dropped_trades, validation_count, error_count, cleaned, inserted>>
    /\ ThreadsOnly

\* a thread calls cleanup_old_data: the cutoff, and the first loop begins
cleanup_old_data_begin ==
    /\ cleaner.pc = "idle"
    /\ cleaner.calls < MaxCleanups
    /\ \E max_age_seconds \in Ages :
          LET cutoff_time == timeMs - max_age_seconds * MsPerSecond IN
          /\ cleaner' = [Idle(cleaner.calls + 1) EXCEPT
                            !.pc = "iterate", !.todo = CleanupOrder,
                            !.cutoff_time = cutoff_time]
          /\ newest_cutoff' =
                IF cutoff_time > newest_cutoff THEN cutoff_time ELSE newest_cutoff
    /\ UNCHANGED <<liquidation_buffers, trade_buffers>>
    /\ CleanerOnly

\* deque(event for event in buffer if ...), the buffer left alone meanwhile
cleanup_old_data_filter ==
    /\ cleaner.pc = "iterate"
    /\ ~cleaner.mutated
    /\ cleaner' = [cleaner EXCEPT
                      !.pc = "store",
                      !.recent_events = Recent(Ring(Head(cleaner.todo)),
                                               cleaner.cutoff_time)]
    /\ UNCHANGED <<liquidation_buffers, trade_buffers, newest_cutoff>>
    /\ CleanerOnly

\* the buffer was appended to during the iteration: RuntimeError, which the
\* except clause of cleanup_old_data logs
cleanup_old_data_raise ==
    /\ cleaner.pc = "iterate"
    /\ cleaner.mutated
    /\ cleaner' = Idle(cleaner.calls)
    /\ UNCHANGED <<liquidation_buffers, trade_buffers, newest_cutoff>>
    /\ CleanerOnly

\* self.liquidation_buffers[symbol] = recent_events, or the same for trades;
\* then the next buffer, or the end of the call
cleanup_old_data_store ==
    /\ cleaner.pc = "store"
    /\ LET key == Head(cleaner.todo)
           rest == Tail(cleaner.todo)
       IN  /\ IF key[1] = "liquidation"
              THEN /\ liquidation_buffers' =
                         [liquidation_buffers EXCEPT ![key[2]] = cleaner.recent_events]
                   /\ UNCHANGED trade_buffers
              ELSE /\ trade_buffers' =
                         [trade_buffers EXCEPT ![key[2]] = cleaner.recent_events]
                   /\ UNCHANGED liquidation_buffers
           /\ cleaner' = IF rest = <<>> THEN Idle(cleaner.calls)
                         ELSE [Idle(cleaner.calls) EXCEPT
                                  !.pc = "iterate", !.todo = rest,
                                  !.cutoff_time = cleaner.cutoff_time]
    /\ UNCHANGED newest_cutoff
    /\ CleanerOnly

InitThreads ==
    /\ cleaner = Idle(0)
    /\ inserted = [key \in BufferKeys |-> <<>>]
    /\ newest_cutoff = 0

NextBufferThreads ==
    \/ thread_add_liquidation
    \/ thread_add_trade
    \/ cleanup_old_data_begin
    \/ cleanup_old_data_filter
    \/ cleanup_old_data_raise
    \/ cleanup_old_data_store
    \/ time_tick

InitBuffer ==
    /\ timeMs = 0
    /\ liquidation_buffers = [sym \in Symbols |-> <<>>]
    /\ trade_buffers = [sym \in Symbols |-> <<>>]
    /\ total_liquidations = 0
    /\ total_trades = 0
    /\ dropped_liquidations = 0
    /\ dropped_trades = 0
    /\ validation_count = 0
    /\ error_count = 0
    /\ cleaned = NotCleaned

NextBuffer ==
    \/ handle_liquidation
    \/ handle_trade
    \/ cleanup_old_data
    \/ time_tick

(***************************************************************************)
(* DataValidator and the message handlers, for events of any content.  A   *)
(* field of an event is absent, an int or a str; a str is told by its      *)
(* text, an int by its number.                                             *)
(***************************************************************************)
Missing == [type |-> "missing", num |-> 0, text |-> ""]
IntValue(n) == [type |-> "int", num |-> n, text |-> ""]
StrValue(s) == [type |-> "str", num |-> 0, text |-> s]

\* float(value): of an int its number; of a str the number it spells, nan
\* for "nan", and ValueError for a text that spells no number
PyFloat(value) ==
    IF value.type = "int" THEN [raises |-> FALSE, nan |-> FALSE, num |-> value.num]
    ELSE IF value.text = "7" THEN [raises |-> FALSE, nan |-> FALSE, num |-> 7]
    ELSE IF value.text = "-7" THEN [raises |-> FALSE, nan |-> FALSE, num |-> -7]
    ELSE IF value.text = "nan" THEN [raises |-> FALSE, nan |-> TRUE, num |-> 0]
    ELSE [raises |-> TRUE, nan |-> FALSE, num |-> 0]

\* float(value) < minimum, where it does not raise: every comparison with nan
\* is False
BelowMin(value, minimum) ==
    LET f == PyFloat(value) IN ~f.nan /\ f.num < minimum

\* liquidation_schema and trade_schema, which are equal: the types a field
\* may have, its allowed values (none listed: any), whether it has a minimum.
\* "exchange" and "time" are taken as present and well-formed.
schema ==
    [symbol |-> [types |-> {"str"}, values |-> {}, has_min |-> FALSE, min |-> 0],
     price  |-> [types |-> {"int", "str"}, values |-> {}, has_min |-> TRUE, min |-> 0],
     side   |-> [types |-> {"int"}, values |-> {1, 2}, has_min |-> FALSE, min |-> 0],
     vol    |-> [types |-> {"int", "str"}, values |-> {}, has_min |-> TRUE, min |-> 0]]

\* DataValidator.validate, for one field of the schema: whether it adds an
\* error
FieldError(value, rules) ==
    \/ value.type = "missing"
    \/ value.type \notin rules.types
    \/ rules.values # {} /\ value.num \notin rules.values
    \/ rules.has_min /\ (PyFloat(value).raises \/ BelowMin(value, rules.min))

\* DataValidator.validate(data, schema).is_valid
is_valid(data) == \A field \in DOMAIN schema : ~FieldError(data[field], schema[field])

\* validate_liquidation and validate_trade: the dict that is validated is
\* data["data"] when the event has a dict under "data", else the event
Validated(event) == IF event.data.present THEN event.data.fields ELSE event.fields

\* an event without a dict under "data"
Flat(fields) == [fields |-> fields, data |-> [present |-> FALSE, fields |-> fields]]
\* an event with a dict under "data"
Nested(fields, inner) == [fields |-> fields, data |-> [present |-> TRUE, fields |-> inner]]

GoodFields ==
    [symbol |-> StrValue("BTCUSDT"), price |-> IntValue(100), side |-> IntValue(1),
     vol |-> IntValue(5)]
NoFields == [symbol |-> Missing, price |-> Missing, side |-> Missing, vol |-> Missing]
CorruptFields ==
    [symbol |-> StrValue("ETHUSDT"), price |-> IntValue(-5), side |-> IntValue(7),
     vol |-> IntValue(-3)]

\* the events the stream delivers
Events ==
    {Flat(GoodFields),
     Flat([GoodFields EXCEPT !.price = StrValue("7")]),
     Flat([GoodFields EXCEPT !.price = IntValue(-1)]),
     Flat([GoodFields EXCEPT !.price = StrValue("abc")]),
     Flat([GoodFields EXCEPT !.price = StrValue("nan")]),
     Flat([GoodFields EXCEPT !.side = IntValue(3)]),
     Flat([GoodFields EXCEPT !.vol = Missing]),
     Flat([GoodFields EXCEPT !.vol = StrValue("-7")]),
     Flat([GoodFields EXCEPT !.symbol = Missing]),
     Nested(NoFields, GoodFields),
     Nested(CorruptFields, GoodFields),
     Nested(GoodFields, CorruptFields)}

\* liq_event.get('symbol', 'UNKNOWN')
SymbolOf(event) ==
    IF event.fields.symbol.type = "missing" THEN "UNKNOWN" ELSE event.fields.symbol.text

\* the event as the buffer stores it: a copy with "timestamp" set
StoredEvent(event) == [event |-> event, timestamp |-> timeMs]

\* DataValidator.validate: the two counters
CountValidation(valid) ==
    /\ validation_count' = validation_count + 1
    /\ error_count' = IF valid THEN error_count ELSE error_count + 1

\* _handle_liquidation_message, for one event of the message
liquidation_event ==
    /\ validation_count < MaxEvents
    /\ \E liq_event \in Events :
          LET valid == is_valid(Validated(liq_event)) IN
          /\ CountValidation(valid)
          /\ IF valid
             THEN /\ add_liquidation(SymbolOf(liq_event), StoredEvent(liq_event))
                  /\ CreateTask(SymbolOf(liq_event))
             ELSE UNCHANGED <<liquidation_buffers, total_liquidations,
                              dropped_liquidations, atasks, ready>>
    /\ cleaned' = NotCleaned
    /\ UNCHANGED <<timeMs, trade_buffers, total_trades, dropped_trades>>
    /\ UNCHANGED <<loopTime, last_analysis, lock_holder, lock_waiters,
                   dashboard_signals, coins, fused, detector_starts>>
    /\ IntakeOnly

\* _handle_trade_message, for one event of the message
trade_event ==
    /\ validation_count < MaxEvents
    /\ \E trade \in Events :
          LET valid == is_valid(Validated(trade)) IN
          /\ CountValidation(valid)
          /\ IF valid
             THEN /\ add_trade(SymbolOf(trade), StoredEvent(trade))
                  /\ CreateTask(SymbolOf(trade))
             ELSE UNCHANGED <<trade_buffers, total_trades, dropped_trades, atasks,
                              ready>>
    /\ cleaned' = NotCleaned
    /\ UNCHANGED <<timeMs, liquidation_buffers, total_liquidations,
                   dropped_liquidations>>
    /\ UNCHANGED <<loopTime, last_analysis, lock_holder, lock_waiters,
                   dashboard_signals, coins, fused, detector_starts>>
    /\ IntakeOnly

NextIntake ==
    \/ liquidation_event
    \/ trade_event

\* leaving `async with self._analysis_locks[symbol]`: the release wakes the
\* first waiter, whose step is queued behind the callbacks already due
wake_up_first(queue, sym) ==
    IF lock_holder'[sym] = 0 /\ lock_waiters'[sym] # <<>>
    THEN Append(queue, [kind |-> "wake", task |-> Head(lock_waiters'[sym]),
                        symbol |-> sym])
    ELSE queue

\* a task runs for the first time: debounce, then the lock
analysis_start ==
    /\ ready # <<>>
    /\ Head(ready).kind = "start"
    /\ ready' = Tail(ready)
    /\ \E t \in {Head(ready).task} :
          LET sym == atasks[t].symbol
              now == loopTime
          IN
          /\ atasks[t].pc = "created"
          /\ IF sym \in DOMAIN last_analysis /\ now - last_analysis[sym] < DebounceSeconds
             THEN /\ Leave(t, [atasks EXCEPT ![t].now = now], FALSE)
                  /\ UNCHANGED <<last_analysis, lock_waiters, dashboard_signals,
                                 fused, detector_starts>>
                  /\ UNCHANGED validatorVars
             ELSE IF CanAcquire(sym)
             THEN /\ CriticalSection(t, now)
                  /\ UNCHANGED <<lock_waiters, wallClock>>
             ELSE /\ atasks' = [atasks EXCEPT ![t].now = now, ![t].pc = "lock_wait"]
                  /\ lock_waiters' = [lock_waiters EXCEPT ![sym] = Append(@, t)]
                  /\ UNCHANGED <<last_analysis, lock_holder, dashboard_signals,
                                 fused, detector_starts>>
                  /\ UNCHANGED validatorVars
    /\ UNCHANGED <<loopTime, coins>>
    /\ UNCHANGED queueVars
    /\ PipelineOnly

\* the lock is free and the first task waiting for it runs
lock_acquired ==
    /\ ready # <<>>
    /\ Head(ready).kind = "wake"
    /\ \E sym \in {Head(ready).symbol} :
          /\ lock_holder[sym] = 0
          /\ lock_waiters[sym] # <<>>
          /\ lock_waiters' = [lock_waiters EXCEPT ![sym] = Tail(@)]
          /\ CriticalSection(Head(lock_waiters[sym]), atasks[Head(lock_waiters[sym])].now)
          /\ ready' = wake_up_first(Tail(ready), sym)
    /\ UNCHANGED <<loopTime, coins, wallClock>>
    /\ UNCHANGED queueVars
    /\ PipelineOnly

\* alert_queue.add(formatted_message, priority=trading_signal.priority) is
\* over, with the alert queued or, the queue being full, given up
add_done ==
    /\ \E t \in DOMAIN atasks :
          /\ atasks[t].pc = "add_await"
          /\ Track(t, atasks)
          /\ lock_waiters' = lock_waiters
          /\ ready' = wake_up_first(ready, atasks[t].symbol)
    /\ \E priority \in Priorities :
          \/ AddOk(nextAlert + 1, priority, DefaultMaxRetries) /\ addResult' = TRUE
          \/ AddTimeout /\ addResult' = FALSE
    /\ nextAlert' = nextAlert + 1
    /\ UNCHANGED <<total_processed, total_failed, total_retried, procPc,
                   queued_alert, alerts_sent, sends, requeues>>
    /\ UNCHANGED <<loopTime, last_analysis, dashboard_signals,
                   coins, fused, detector_starts>>
    /\ UNCHANGED validatorVars
    /\ PipelineOnly

\* db.save_signal(...) is over
db_done ==
    /\ \E t \in DOMAIN atasks :
          /\ atasks[t].pc = "db_await"
          /\ Leave(t, atasks, TRUE)
          /\ lock_waiters' = lock_waiters
          /\ ready' = wake_up_first(ready, atasks[t].symbol)
    /\ UNCHANGED <<loopTime, last_analysis, dashboard_signals,
                   coins, fused, detector_starts>>
    /\ UNCHANGED <<queueVars, validatorVars>>
    /\ PipelineOnly

\* PATCH /api/coins/{symbol}/toggle on a coin that has an entry.  The entry
\* is read once in an analysis, in the step that publishes the signal;
\* toggles are taken while no analysis is in flight.
toggle_coin ==
    /\ LiveAnalyses = {}
    /\ \E sym \in Symbols, active \in BOOLEAN :
          /\ coins[sym] # "absent"
          /\ coins' = [coins EXCEPT ![sym] = IF active THEN "active" ELSE "inactive"]
    /\ UNCHANGED <<loopTime, last_analysis, lock_holder, lock_waiters, ready, atasks,
                   dashboard_signals, fused, detector_starts>>
    /\ UNCHANGED <<queueVars, validatorVars>>
    /\ PipelineOnly

\* the clock of the event loop moves on.  alert_queue.add gives up after 1 s,
\* which is less than a tick: no task stays in it over a tick.  The callbacks
\* that are due run first.
loop_tick ==
    /\ loopTime + TickSeconds <= MaxLoopTime
    /\ ready = <<>>
    /\ \A t \in DOMAIN atasks : atasks[t].pc # "add_await"
    /\ loopTime' = loopTime + TickSeconds
    /\ UNCHANGED <<last_analysis, lock_holder, lock_waiters, ready, atasks,
                   dashboard_signals, coins, fused, detector_starts>>
    /\ UNCHANGED <<queueVars, validatorVars>>
    /\ PipelineOnly

InitPipeline ==
    /\ loopTime = 0
    /\ last_analysis = EmptyMap
    /\ lock_holder = [sym \in Symbols |-> 0]
    /\ lock_waiters = [sym \in Symbols |-> <<>>]
    /\ ready = <<>>
    /\ atasks = <<>>
    /\ dashboard_signals = <<>>
    /\ coins = [sym \in Symbols |-> IF sym \in trade_symbols THEN "active" ELSE "absent"]
    /\ fused = 0
    /\ detector_starts = [sym \in Symbols |-> <<>>]

NextPipeline ==
    \/ handle_liquidation
    \/ handle_trade
    \/ analysis_start
    \/ lock_acquired
    \/ add_done
    \/ db_done
    \/ toggle_coin
    \/ loop_tick

InitQueue ==
    /\ heap = <<>>
    /\ unfinished = 0
    /\ total_queued = 0
    /\ total_processed = 0
    /\ total_failed = 0
    /\ total_retried = 0
    /\ nextStamp = 1
    /\ addResult = TRUE
    /\ procPc = "get"
    /\ queued_alert = NoAlert
    /\ alerts_sent = 0
    /\ nextAlert = 0
    /\ sends = 0
    /\ requeues = [a \in 1..(MaxAlerts + 1) |-> 0]

\* the state after construction, with or without an API token configured
\* no function has been called on its own
InitCalls ==
    /\ called = [fn |-> "none"]
    /\ returned = "none"

InitAnyToken ==
    /\ InitQueue /\ InitValidator /\ InitClient /\ InitPipeline /\ InitBuffer
    /\ InitTracker /\ InitAnalyzer /\ InitLimiter /\ InitDashboard /\ InitSupervisor
    /\ InitCalls /\ InitSubscriptions /\ InitThreads

\* the state after construction, an API token being configured
Init == InitAnyToken /\ api_token = "secret"

NextQueue ==
    \/ add
    \/ get
    \/ send_ok
    \/ retry_exhausted
    \/ retry_again
    \/ retry_add_ok
    \/ retry_add_timeout

SpecQueue == Init /\ [][NextQueue]_vars

SpecValidator == Init /\ [][NextValidator]_vars

SpecClient == Init /\ [][NextClient]_vars

SpecPipeline == Init /\ [][NextPipeline]_vars

SpecBuffer == Init /\ [][NextBuffer]_vars

SpecIntake == Init /\ [][NextIntake]_vars

SpecAnalyzer == Init /\ [][NextAnalyzer]_vars

SpecLimiter == Init /\ [][NextLimiter]_vars

SpecCoins == InitAnyToken /\ [][NextCoins]_vars

SpecSupervisor == Init /\ [][NextSupervisor]_vars

\* the event loop runs every task that can run, and every attempt to connect
\* or to log in ends one way or the other
SpecSupervisorFair ==
    /\ SpecSupervisor
    /\ WF_vars(main_connect) /\ WF_vars(backoff_wake)
    /\ WF_vars(disc_recv_done) /\ WF_vars(disc_hb_done) /\ WF_vars(disc_closed)
    /\ WF_vars(recv_start) /\ WF_vars(hb_step) /\ WF_vars(cancel_delivered)
    /\ WF_vars(run_connected) /\ WF_vars(run_not_connected)
    /\ WF_vars(run_shutdown) /\ WF_vars(run_cancel)
    /\ WF_vars(bg_start) /\ WF_vars(bg_iterate) /\ WF_vars(bg_cancelled)
    /\ WF_vars(save_confidence) /\ WF_vars(save_coins) /\ WF_vars(db_close)
    /\ WF_vars(ConnectReturns) /\ WF_vars(LoginReturns)

SpecDirection == Init /\ [][determine_direction_call]_vars

SpecFilter == Init /\ [][evaluate_call]_vars

SpecScorer == Init /\ [][adjust_confidence_call]_vars

SpecOutcome == Init /\ [][evaluate_outcome_call]_vars

SpecTracker == Init /\ [][NextTracker]_vars

\* signal_tracker_task calls check_outcomes every 60 s, and time passes
SpecTrackerFair ==
    SpecTracker /\ WF_vars(check_outcomes) /\ WF_vars(tracker_tick)

\* the event loop runs every task that is ready, and the server answers
SpecClientFair == SpecClient /\ WF_vars(ClientProgress)

SpecBufferThreads == Init /\ [][NextBufferThreads]_vars

SpecSubscriptions == Init /\ [][NextSubscriptions]_vars

\* the event loop wakes dynamic_subscription_task every 10 s, and a lost
\* session is followed by a new one
SpecSubscriptionsFair ==
    /\ SpecSubscriptions
    /\ WF_vars(on_connect) /\ WF_vars(dynamic_subscription_task)

\* the client as a class: its owner may call connect() again
NextClientApi ==
    \/ NextClient
    \/ connect_call

SpecClientApi == Init /\ [][NextClientApi]_vars

(***************************************************************************)
(* Claims about the alert queue, checked under SpecQueue.                  *)
(***************************************************************************)
\* the entries of the queue together with the one the drain loop holds
Held == {heap[i] : i \in DOMAIN heap} \cup (IF procPc = "get" THEN {} ELSE {queued_alert})

\* C1: an alert whose delivery always fails is re-enqueued by retry() at most
\* max_retries times: no payload has been re-enqueued more often than the
\* max_retries it was added with.
C1_RequeuedAtMostMaxRetries ==
    \A e \in Held : requeues[e.alert] <= e.max_retries

\* C2: among queued alerts of equal priority get() returns the one enqueued
\* first: while the drain loop holds an alert, no alert of the same priority
\* with an earlier enqueue timestamp is still in the queue.
C2_FifoWithinPriority ==
    procPc = "send" =>
        \A i \in DOMAIN heap :
            heap[i].priority = queued_alert.priority
                => heap[i].timestamp > queued_alert.timestamp

\* C3: every get() returns an alert whose priority number is the minimum of
\* the priorities in the queue at that moment.
C3_GetReturnsMinPriority ==
    [][(procPc = "get" /\ procPc' = "send")
          => \A i \in DOMAIN heap : heap[i].priority >= queued_alert'.priority]_vars

\* C3 witness: get() returned an alert ahead of one that was enqueued earlier
\* with a larger priority number.
C3_Witness ==
    /\ procPc = "send"
    /\ \E i \in DOMAIN heap :
          /\ heap[i].priority > queued_alert.priority
          /\ heap[i].timestamp < queued_alert.timestamp

(***************************************************************************)
(* SignalValidator properties.                                             *)
(***************************************************************************)
SameKey(a, b) == generate_signal_key(a) = generate_signal_key(b)
SameBand(a, b) == ConfidenceBand(a.confidence) = ConfidenceBand(b.confidence)

\* C7: two signals with the same symbol, type and direction and the same
\* 5-point confidence band, both at or above the minimum confidence and
\* submitted less than 10 minutes apart, are never both approved.
C7_OneApprovalPerBandInTenMinutes ==
    \A i, j \in DOMAIN approvals :
        (/\ i < j
         /\ SameKey(approvals[i].signal, approvals[j].signal)
         /\ SameBand(approvals[i].signal, approvals[j].signal))
        => approvals[j].time - approvals[i].time >= DedupMinutes

\* a signal of another confidence in the band of an approved one is refused
\* as a duplicate after the cooldown of its key has run out
C7_Witness ==
    /\ validation.reason = "duplicate"
    /\ \E i \in DOMAIN approvals :
          /\ SameKey(approvals[i].signal, validation.signal)
          /\ SameBand(approvals[i].signal, validation.signal)
          /\ approvals[i].signal.confidence # validation.signal.confidence
          /\ validation.signal.confidence >= MinConfidenceTenths
          /\ wallClock - approvals[i].time >= cooldown_minutes
          /\ wallClock - approvals[i].time < DedupMinutes

ApprovedInTrailingHour ==
    {i \in DOMAIN approvals : approvals[i].time > wallClock - HourMinutes}

\* C8: at every instant the number of signals approved within the trailing
\* hour (after now - 3600 s, up to now) is at most max_signals_per_hour.
C8_ApprovalsPerHourBounded ==
    Cardinality(ApprovedInTrailingHour) <= max_signals_per_hour

\* a signal that passes the other three rules is refused with the hour full
C8_Witness ==
    /\ validation.reason = "rate_limit"
    /\ validation.signal.confidence >= MinConfidenceTenths
    /\ Cardinality(ApprovedInTrailingHour) = max_signals_per_hour

\* C9: once a signal of a key (symbol, type, direction) is approved, no
\* signal of that key is approved before cooldown_minutes have passed,
\* whatever its confidence: two approvals of one key are never less than
\* cooldown_minutes apart (no cooldown is reset by hand).
C9_ApprovalsOfKeyCooldownApart ==
    \A i, j \in DOMAIN approvals :
        (i < j /\ SameKey(approvals[i].signal, approvals[j].signal))
        => approvals[j].time - approvals[i].time >= cooldown_minutes

\* a signal of another band than the approved one, which is no duplicate, is
\* refused for the cooldown of its key
C9_Witness ==
    /\ validation.reason = "cooldown"
    /\ \E i \in DOMAIN approvals :
          /\ SameKey(approvals[i].signal, validation.signal)
          /\ ~SameBand(approvals[i].signal, validation.signal)
          /\ wallClock - approvals[i].time < cooldown_minutes

(***************************************************************************)
(* WebSocketClient properties.                                             *)
(***************************************************************************)
\* the client is connected on a session opened after session s, and the
\* receive loop of that session is running
Reconnected(s) ==
    /\ state = "connected"
    /\ connection > s
    /\ Live(tasks, receive_task)
    /\ tasks[receive_task].pc \in {"created", "recv_wait"}

\* C4: after three consecutive read timeouts on a connected session the
\* client eventually is connected again, with a receive loop running on the
\* new session, provided the server refuses no connection and no login (and
\* the program is not shut down meanwhile).
C4_ReconnectsAfterThreeTimeouts ==
    \A s \in 1..(MaxConnects + 1) :
        (lostSession = s) ~> (Reconnected(s) \/ serverRefused \/ ~should_reconnect)

\* C13: once the state is Closed no step of any task changes it: not a call
\* to connect(), not the end of a receive loop, not a heartbeat, not the end
\* of a backoff sleep.
C13_ClosedIsTerminal ==
    [][state = "closed" => state' = "closed"]_vars

\* a connection was dialled, or is being dialled, after session s
ReconnectAttempt(s) ==
    \/ sessions > s
    \/ state \in {"connecting", "reconnecting"}

\* C14: after a login that is refused or not acknowledged in time the client
\* tears the session down and then attempts to connect again.
C14_ReconnectsAfterLoginFailure ==
    \A s \in 1..(MaxConnects + 1) :
        (loginFailed = s) ~> ReconnectAttempt(s)

\* this step, an add() returns False: the producer's, or the one retry() makes
AddFails ==
    \/ nextAlert' = nextAlert + 1 /\ addResult' = FALSE
    \/ procPc = "retry_add" /\ total_failed' = total_failed + 1

\* C16: the alert queue never holds more than max_size alerts; an add on a
\* queue that stays full for the 1 s wait returns failure and leaves the
\* queue contents and the queued counter unchanged.
C16_BoundedQueueRejectsWhenFull ==
    [][/\ Len(heap') <= max_size
       /\ AddFails => (Len(heap) = max_size /\ heap' = heap
                         /\ total_queued' = total_queued)
       /\ (Len(heap) = max_size /\ nextAlert' = nextAlert + 1) => addResult' = FALSE]_vars

\* the producer's last add was refused by a full queue
C16_Witness ==
    /\ nextAlert > max_size
    /\ addResult = FALSE
    /\ Len(heap) = max_size
    /\ total_queued = max_size

(***************************************************************************)
(* analyze_and_alert properties.                                           *)
(***************************************************************************)
\* C5: for every symbol, two analyses that got past the debounce and ran
\* the detectors started them at least 5 s apart.
C5_DetectorStartsDebounced ==
    \A sym \in Symbols :
        Len(detector_starts[sym]) = 2
        => detector_starts[sym][2].at - detector_starts[sym][1].at >= DebounceSeconds

\* tasks of a symbol suspended inside the critical section
Inside(sym) == {t \in DOMAIN atasks : atasks[t].symbol = sym /\ atasks[t].pc \in InsidePcs}

\* the detectors of a symbol are started in this step
StartsDetectors(sym) == detector_starts'[sym] # detector_starts[sym]

\* C6: a task runs the detectors, fusion, scorer, validator, dashboard
\* publish and alert enqueue of a symbol only while no other task of that
\* symbol is inside that section, and never two tasks of a symbol end up
\* inside it; tasks of different symbols may be inside at the same time.
C6_OneAnalysisPerSymbolInside ==
    [][\A sym \in Symbols :
          /\ StartsDetectors(sym) => Inside(sym) = {}
          /\ Cardinality(Inside(sym)') <= 1]_vars

\* an analysis of a symbol is inside the section while a second task of that
\* symbol, which got past the debounce, waits for its lock
C6_Witness ==
    \E sym \in Symbols :
        /\ Cardinality(Inside(sym)) = 1
        /\ lock_waiters[sym] # <<>>

\* C10: every signal the generator produces is added to the dashboard signal
\* list, whether or not the validator approves it.
C10_EveryFusedSignalOnDashboard ==
    Len(dashboard_signals) = fused

\* the validator approves a signal of the symbol in this step
Approves(sym) ==
    /\ total_approved' = total_approved + 1
    /\ validation'.signal.symbol = sym

\* the tasks of a symbol suspended in alert_queue.add
Enqueuing(sym) ==
    {t \in DOMAIN atasks : atasks[t].symbol = sym /\ atasks[t].pc = "add_await"}

\* C11: an approved signal whose market context is assessed UNFAVORABLE is
\* published to the dashboard but is not enqueued: the task that handles it
\* leaves alert_queue.add without the queue having taken an alert.
C11_UnfavorableNeverEnqueued ==
    [][\A t \in DOMAIN atasks :
          (/\ atasks[t].pc = "add_await"
           /\ atasks[t].context = "UNFAVORABLE"
           /\ atasks'[t].pc # "add_await")
          => total_queued' = total_queued]_vars

\* C12: an approved signal of a coin whose entry is marked inactive is added
\* to the dashboard signal list and is not enqueued (no task of the symbol
\* enters alert_queue.add, the queue is left alone); an approved signal of a
\* coin without an entry is added to the list and goes on to alert_queue.add.
C12_InactiveCoinNotEnqueued ==
    [][\A sym \in Symbols :
          Approves(sym) =>
             /\ dashboard_signals' =
                    KeepLast(Append(dashboard_signals, DashboardEntry(validation'.signal)))
             /\ coins[sym] = "inactive" =>
                    /\ Enqueuing(sym)' = {}
                    /\ UNCHANGED <<heap, total_queued, nextAlert>>
             /\ coins[sym] = "absent" => Enqueuing(sym)' # {}]_vars

\* the one signal approved so far, of a coin marked inactive, is on the
\* dashboard and no alert was ever handed to the queue
C12_Witness ==
    /\ \E sym \in Symbols :
          /\ coins[sym] = "inactive"
          /\ validation.valid
          /\ validation.signal.symbol = sym
          /\ Len(dashboard_signals) = 1
          /\ dashboard_signals[1].symbol = sym
    /\ total_approved = 1
    /\ nextAlert = 0
    /\ \A t \in DOMAIN atasks : atasks[t].pc = "done"

(***************************************************************************)
(* Message handler and BufferManager properties.                           *)
(***************************************************************************)
\* this step, a handler receives an event while the cap is reached
ArrivesAtCap ==
    /\ Cardinality(LiveAnalyses) >= max_concurrent_analysis
    /\ total_liquidations' + total_trades' = total_liquidations + total_trades + 1

\* this step, an event becomes the newest of a ring of its channel
InsertedInItsBuffer ==
    \/ /\ total_liquidations' = total_liquidations + 1
       /\ \E sym \in Symbols :
             /\ liquidation_buffers'[sym] # <<>>
             /\ liquidation_buffers'[sym][Len(liquidation_buffers'[sym])] =
                   Stamped(total_liquidations')
             /\ \A other \in Symbols \ {sym} :
                   liquidation_buffers'[other] = liquidation_buffers[other]
    \/ /\ total_trades' = total_trades + 1
       /\ \E sym \in Symbols :
             /\ trade_buffers'[sym] # <<>>
             /\ trade_buffers'[sym][Len(trade_buffers'[sym])] = Stamped(total_trades')
             /\ \A other \in Symbols \ {sym} :
                   trade_buffers'[other] = trade_buffers[other]

\* C15: the number of analysis tasks in flight never exceeds
\* max_concurrent_analysis; an event that arrives while the cap is reached is
\* still inserted into its buffer but starts no analysis task.
C15_CapOnAnalysesInFlight ==
    [][/\ Cardinality(LiveAnalyses') <= max_concurrent_analysis
       /\ ArrivesAtCap => (InsertedInItsBuffer /\ atasks' = atasks)]_vars

\* the cap is reached and an event has come that started no task
C15_Witness ==
    /\ Cardinality(LiveAnalyses) = max_concurrent_analysis
    /\ total_liquidations + total_trades > Len(atasks)
    /\ \E sym \in Symbols :
          \/ /\ liquidation_buffers[sym] # <<>>
             /\ liquidation_buffers[sym][Len(liquidation_buffers[sym])].seq =
                   total_liquidations
          \/ /\ trade_buffers[sym] # <<>>
             /\ trade_buffers[sym][Len(trade_buffers[sym])].seq = total_trades

\* this step inserts event into ring buffer of capacity maxlen: a full ring
\* loses its oldest event and the overflow counter counts it, a ring that is
\* not full loses nothing and the counter stays
RingInsert(buffer, after, maxlen, event, dropped, droppedAfter) ==
    IF Len(buffer) = maxlen
    THEN after = Append(Tail(buffer), event) /\ droppedAfter = dropped + 1
    ELSE after = Append(buffer, event) /\ droppedAfter = dropped

\* C19: each per-symbol ring never holds more than its capacity; an insert
\* into a full ring evicts exactly the oldest event and increments the
\* overflow counter by one, and an insert into a ring that is not full leaves
\* the overflow counter unchanged.
C19_RingsBoundedOverflowCounted ==
    [][/\ \A sym \in Symbols :
             /\ Len(liquidation_buffers'[sym]) <= max_liquidations
             /\ Len(trade_buffers'[sym]) <= max_trades
       /\ total_liquidations' = total_liquidations + 1 =>
             \E sym \in Symbols :
                /\ RingInsert(liquidation_buffers[sym], liquidation_buffers'[sym],
                              max_liquidations, Stamped(total_liquidations'),
                              dropped_liquidations, dropped_liquidations')
                /\ \A other \in Symbols \ {sym} :
                      liquidation_buffers'[other] = liquidation_buffers[other]
       /\ total_trades' = total_trades + 1 =>
             \E sym \in Symbols :
                /\ RingInsert(trade_buffers[sym], trade_buffers'[sym], max_trades,
                              Stamped(total_trades'), dropped_trades, dropped_trades')
                /\ \A other \in Symbols \ {sym} :
                      trade_buffers'[other] = trade_buffers[other]]_vars

\* a full ring has taken one more event and lost its oldest one
C19_Witness ==
    \E sym \in Symbols :
        /\ Len(liquidation_buffers[sym]) = max_liquidations
        /\ dropped_liquidations = 1
        /\ liquidation_buffers[sym][1].seq = 2
        /\ liquidation_buffers[sym][max_liquidations].seq = max_liquidations + 1

\* the symbol a stored event carries is the one of its ring, its price and
\* volume are numbers not below 0 and its side is 1 or 2
CarriesValidFields(sym, fields) ==
    /\ fields.symbol = StrValue(sym)
    /\ \A field \in {"price", "vol"} :
          /\ fields[field].type \in {"int", "str"}
          /\ ~PyFloat(fields[field]).raises
          /\ ~PyFloat(fields[field]).nan
          /\ PyFloat(fields[field]).num >= 0
    /\ fields.side.type = "int"
    /\ fields.side.num \in {1, 2}

\* C21: every event stored in a buffer has itself passed validation: it
\* carries its own symbol, a price >= 0, a side in {1, 2} and a volume >= 0;
\* an event that fails validation is not inserted and starts no analysis.
C21_StoredEventsValid ==
    \A buffers \in {liquidation_buffers, trade_buffers} :
       \A sym \in DOMAIN buffers :
          \A i \in DOMAIN buffers[sym] :
             CarriesValidFields(sym, buffers[sym][i].event.fields)

\* this step is cleanup_old_data called again with the age of the call before
\* it, no event having been inserted in between
CleanupAgain ==
    /\ cleaned.age # 0
    /\ cleaned'.age = cleaned.age
    /\ timeMs' = timeMs

Rings == <<liquidation_buffers, trade_buffers>>

\* C20 as stated: calling cleanup_old_data(age) twice back-to-back, with no
\* insert in between, leaves every ring with the same contents in the same
\* order as after the first call.
C20_CleanupTwiceSameRings ==
    [][CleanupAgain => Rings' = Rings]_vars

\* C20, amended: calling cleanup_old_data(age) twice at one reading of the
\* clock, with no insert in between, leaves every ring with the same contents
\* in the same order as after the first call.
C20_CleanupTwiceAtOneReading ==
    [][(CleanupAgain /\ cleaned.at = timeMs) => Rings' = Rings]_vars

\* the second of two calls at one reading of the clock, on rings from which
\* the first call took an event and left one
C20_Witness ==
    /\ cleaned.again
    /\ dropped_liquidations = 0
    /\ \E sym \in Symbols :
          /\ liquidation_buffers[sym] # <<>>
          /\ liquidation_buffers[sym][1].seq > 1
          /\ liquidation_buffers[sym][1].timestamp = timeMs - cleaned.age * MsPerSecond

(***************************************************************************)
(* OrderFlowAnalyzer properties.                                           *)
(***************************************************************************)
\* the buy ratio of the window lies in [0.35, 0.65]
BuyRatioInNeutralBand ==
    LET volumes == calculate_volumes(flow_trades)
        total_volume == volumes[1] + volumes[2]
    IN  /\ total_volume > 0
        /\ volumes[1] * 100 >= 35 * total_volume
        /\ volumes[1] * 100 <= 65 * total_volume

\* C22: for every trade window whose buy_ratio lies in the closed interval
\* [0.35, 0.65] the order-flow analyzer emits no signal, whatever the counts
\* of large buys and large sells.
C22_NoSignalInNeutralBand ==
    (flow_signal.analyzed /\ BuyRatioInNeutralBand) => flow_signal.signal_type = "none"

(***************************************************************************)
(* Dashboard API properties.                                               *)
(***************************************************************************)
\* the requests of an address accepted in the window that starts at a time
AcceptedIn(ip, start) ==
    {i \in DOMAIN responses :
        /\ responses[i].ip = ip
        /\ responses[i].status = 200
        /\ responses[i].at >= start
        /\ responses[i].at < start + RateWindow}

\* C23: for every client address at most RATE_LIMIT rate-limited requests are
\* accepted within any window of 60 s, and each further one is answered with
\* 429, however many distinct addresses the limiter has seen.
C23_AtMostLimitPerWindow ==
    \A i \in DOMAIN responses :
       /\ Cardinality(AcceptedIn(responses[i].ip, responses[i].at)) <= RATE_LIMIT
       /\ Cardinality(AcceptedIn(responses[i].ip, responses[i].at - RateWindow + 1))
             <= RATE_LIMIT

\* this step answers a request to a coin endpoint that carries no bearer
\* token or one that is not the configured token
Unauthorized ==
    /\ api_token # ""
    /\ api_response' # api_response \/ rate_limit_store' # rate_limit_store
    /\ api_response'.endpoint # "none"
    /\ api_response'.authorization # Header("Bearer", api_token)

\* the request of this step carries no bearer token at all
MissingToken ==
    \/ ~api_response'.authorization.present
    \/ api_response'.authorization.scheme # "Bearer"

\* C24: with an API token configured, an add, remove or toggle coin request
\* that carries no bearer token or a non-matching one is rejected, with 401
\* when missing and 403 when wrong, and leaves the coin list and the
\* subscription request queue unchanged.
C24_UnauthorizedRejectedUnchanged ==
    [][Unauthorized =>
          /\ api_response'.status = IF MissingToken THEN 401 ELSE 403
          /\ coins' = coins
          /\ subscription_queue' = subscription_queue]_vars

(***************************************************************************)
(* SignalTracker properties.                                               *)
(***************************************************************************)
Outcomes == {"WIN", "LOSS", "NEUTRAL"}

\* signal id has been handed to track_signal
IsTracked(id) == tracked_count >= id

\* signal id has its terminal outcome
HasOutcome(id) ==
    \E i \in DOMAIN completed :
        completed[i].id = id /\ completed[i].outcome \in Outcomes

\* this step is a call of check_outcomes
ChecksOutcomes == ~checked /\ checked'

\* this step, pending signal p is put off by the extension
Deferred(p) ==
    /\ wallClock - p.timestamp < check_interval * 3
    /\ \E j \in DOMAIN pending' :
          pending'[j] = [p EXCEPT !.check_after = wallClock + ExtendMinutes]

\* this step, pending signal p gets its outcome; without a price that is
\* NEUTRAL, given to a signal 3 hold intervals old
Concluded(p) ==
    /\ \A j \in DOMAIN pending' : pending'[j].id # p.id
    /\ \E j \in DOMAIN completed' :
          /\ completed'[j].id = p.id
          /\ completed'[j].outcome \in Outcomes
          /\ completed'[j].exit_price <= 0 =>
                /\ completed'[j].outcome = "NEUTRAL"
                /\ wallClock - p.timestamp >= check_interval * 3

\* C17: every tracked signal eventually receives a terminal outcome as long
\* as check_outcomes keeps being called: a check that finds neither a trade
\* nor a liquidation price at the deadline is deferred, and once the signal
\* is at least 3 times the hold interval old it is labelled NEUTRAL.
C17_EveryTrackedSignalConcludes ==
    /\ \A id \in 1..MaxTracked : IsTracked(id) ~> HasOutcome(id)
    /\ [][ChecksOutcomes =>
            \A i \in DOMAIN pending :
               IF wallClock < pending[i].check_after
               THEN \E j \in DOMAIN pending' : pending'[j] = pending[i]
               ELSE Deferred(pending[i]) \/ Concluded(pending[i])]_vars

\* the completed signals of a type that ended WIN or LOSS, oldest first
Decisions(signal_type) ==
    SelectSeq(completed,
              LAMBDA c : c.signal_type = signal_type /\ c.outcome \in {"WIN", "LOSS"})

\* the scorer was given each decided signal of the type once, in order
RecordedOnce(signal_type) ==
    /\ Len(signal_history[signal_type]) = Len(Decisions(signal_type))
    /\ \A i \in DOMAIN signal_history[signal_type] :
          signal_history[signal_type][i] = (Decisions(signal_type)[i].outcome = "WIN")

\* C18: for each tracked signal that ends WIN or LOSS, the scorer's
\* record_result is called exactly once with that signal's type and
\* success = (outcome is WIN); a NEUTRAL outcome leaves the learner history
\* and win rate unchanged.
C18_ScorerFedOncePerDecidedSignal ==
    [][/\ \A i, j \in DOMAIN completed' :
             completed'[i].id = completed'[j].id => i = j
       /\ \A signal_type \in TrackedTypes :
             /\ RecordedOnce(signal_type)'
             /\ Len(Decisions(signal_type)') = Len(Decisions(signal_type)) =>
                   /\ signal_history'[signal_type] = signal_history[signal_type]
                   /\ win_rates'[signal_type] = win_rates[signal_type]]_vars

\* the place of a step in the shutdown of run()
StepRank(step) ==
    CASE step = "disconnect" -> 1
      [] step = "cancel" -> 2
      [] step = "learner" -> 3
      [] step = "coins" -> 4
      [] step = "close" -> 5

\* C25: on shutdown the supervisor first stops accepting stream frames, then
\* cancels the background tasks, then writes learner state and dashboard coin
\* state to storage, and only then closes storage: the steps are taken in
\* that order, no receive loop is left once the tasks are cancelled, every
\* background task has ended when the state is written, and no state is
\* written to a storage that is closed.
C25_ShutdownInOrder ==
    /\ \A i, j \in DOMAIN shutdown_steps :
          i < j => StepRank(shutdown_steps[i]) < StepRank(shutdown_steps[j])
    /\ \A i \in DOMAIN shutdown_steps :
          /\ shutdown_steps[i] = "cancel" => ~Accepting
          /\ shutdown_steps[i] \in {"learner", "coins"} =>
                \A t \in BackgroundTasks : bg[t] \in DonePcs
    /\ \A i \in DOMAIN db_writes : db_writes[i].db = "open"
    /\ db = "closed" => run_pc = "complete"

\* run() has shut down after cleanup_task had saved the confidence state:
\* all five steps were taken
C25_Witness ==
    /\ run_pc = "complete"
    /\ shutdown_steps = <<"disconnect", "cancel", "learner", "coins", "close">>
    /\ [what |-> "periodic", db |-> "open"] = db_writes[1]
    /\ db = "closed"

\* C26: after the shutdown signal is raised, in any supervisor state
\* including while the initial stream connection is still being retried, all
\* background tasks eventually stop and the shutdown sequence (state flush,
\* storage close, stream close) eventually completes.
C26_ShutdownCompletes ==
    shutdown_event ~>
        /\ run_pc = "complete"
        /\ \A t \in BackgroundTasks : bg[t] \in DonePcs
        /\ db = "closed"
        /\ state = "closed"

\* a message handler has run: it has counted one more event
HandlerStep ==
    total_liquidations' + total_trades' > total_liquidations + total_trades

\* C27: handling an inbound stream frame (validate, insert into the buffer,
\* start analysis tasks) completes without waiting for any analysis task to
\* run or finish: a handler can run whatever the analyses in flight are doing,
\* and its step leaves every one of them, the locks and the steps already
\* due as they were; the task it makes has not run when the handler is over,
\* so the read loop goes on to its next read while analyses are in progress.
C27_HandlerNeverWaits ==
    /\ [](MoreEvents => ENABLED handle_liquidation /\ ENABLED handle_trade)
    /\ [][HandlerStep =>
             /\ \A t \in DOMAIN atasks : atasks'[t] = atasks[t]
             /\ Len(atasks') \in {Len(atasks), Len(atasks) + 1}
             /\ \A t \in DOMAIN atasks' \ DOMAIN atasks : atasks'[t].pc = "created"
             /\ SubSeq(ready', 1, Len(ready)) = ready
             /\ lock_holder' = lock_holder
             /\ lock_waiters' = lock_waiters]_vars

\* a handler made a task while an analysis was in progress, and that
\* analysis is still in progress
C27_Witness ==
    \E t, u \in DOMAIN atasks :
        /\ t < u
        /\ t \in InProgress
        /\ atasks[u].during >= 1
        /\ atasks[u].pc = "created"

\* the login of connect() has just succeeded
LoginSucceeded == ~is_authenticated /\ is_authenticated'

\* C28: the delay before the n-th consecutive failed connection attempt is
\* min(base * 2^(n-1), max_delay), never more than 60 s with the defaults,
\* and the attempts counter is reset to 0 on a successful login and on no
\* other event: the counter changes only by one more failure, which sets the
\* delay, or by the reset of a successful login, and every successful login
\* resets it.
C28_BackoffCappedCounterReset ==
    [][/\ reconnect_attempts' # reconnect_attempts =>
             \/ /\ reconnect_attempts' = reconnect_attempts + 1
                /\ \/ delay' = reconnect_delay * 2 ^ (reconnect_attempts' - 1)
                   \/ /\ delay' = max_reconnect_delay
                      /\ reconnect_delay * 2 ^ (reconnect_attempts' - 1) > max_reconnect_delay
                /\ delay' <= 60
             \/ /\ reconnect_attempts' = 0
                /\ LoginSucceeded
       /\ LoginSucceeded => reconnect_attempts' = 0
       /\ delay' # delay => reconnect_attempts' = reconnect_attempts + 1]_vars

\* five attempts in a row failed, the last delay being cut to the 60 s, and
\* the login of the sixth succeeded and reset the counter
C28_Witness ==
    /\ reconnect_attempts = 0
    /\ delay = max_reconnect_delay
    /\ reconnect_delay * 2 ^ 4 > max_reconnect_delay
    /\ is_authenticated
    /\ state = "connected"

\* how many entries of the queue equal e
EntriesEqual(h, e) == Cardinality({i \in DOMAIN h : h[i] = e})

\* C29: a Retry that does not drop the alert puts exactly one new queue entry
\* carrying the same payload and the same max_retries, with priority
\* min(p + 1, 3) where p is the priority at which the alert was dequeued:
\* when add() returns to retry(), either the alert is marked failed and the
\* queue is as it was, or the queue holds its former entries and one more,
\* which has these three fields.
C29_RetryRequeuesOnceLowered ==
    [][procPc = "retry_add" /\ procPc' # "retry_add" =>
          \/ /\ total_failed' = total_failed + 1
             /\ heap' = heap
          \/ /\ total_failed' = total_failed
             /\ Len(heap') = Len(heap) + 1
             /\ \E i \in DOMAIN heap' :
                   /\ heap'[i].alert = queued_alert.alert
                   /\ heap'[i].max_retries = queued_alert.max_retries
                   /\ heap'[i].priority =
                         IF queued_alert.priority + 1 < 3
                         THEN queued_alert.priority + 1 ELSE 3
                   /\ \A j \in DOMAIN heap' :
                         EntriesEqual(heap', heap'[j]) =
                            EntriesEqual(heap, heap'[j])
                               + IF heap'[j] = heap'[i] THEN 1 ELSE 0]_vars

\* an alert has been put back three times, the last time from the lowest
\* priority, and waits in the queue at priority 3
C29_Witness ==
    \E i \in DOMAIN heap :
        /\ requeues[heap[i].alert] >= 3
        /\ heap[i].priority = 3
        /\ heap[i].max_retries = DefaultMaxRetries

\* signal id waits in _pending
IsPending(id) == \E i \in DOMAIN pending : pending[i].id = id

\* the places of signal id in _completed
CompletedAt(id) == {i \in DOMAIN completed : completed[i].id = id}

\* every tracked signal is in one of the two lists, a signal with an outcome
\* is not pending, and a signal is in _completed once
TrackedLifecycle ==
    \A id \in 1..tracked_count :
        /\ IsPending(id) \/ CompletedAt(id) # {}
        /\ HasOutcome(id) => ~IsPending(id)
        /\ \A i \in DOMAIN pending : pending[i].outcome = "none"
        /\ Cardinality(CompletedAt(id)) <= 1

\* a step gives an outcome only to a pending signal whose deadline has come,
\* and leaves the completed signals as they are
OutcomeSetOnceAtDeadline ==
    /\ \A i \in DOMAIN completed :
          Len(completed') < CompletedKept =>
             i \in DOMAIN completed' /\ completed'[i] = completed[i]
    /\ \A id \in 1..tracked_count :
          HasOutcome(id)' /\ ~HasOutcome(id) =>
             \E i \in DOMAIN pending :
                /\ pending[i].id = id
                /\ pending[i].outcome = "none"
                /\ wallClock >= pending[i].check_after
                /\ ChecksOutcomes

\* C30: each tracked signal's outcome is set exactly once, by a check made at
\* or after its check deadline; from then on the signal is in the completed
\* list, its outcome does not change and it is not pending again, and no
\* tracked signal is missing from both lists while the completed list is
\* below its cap.
C30_OutcomeSetOnceThenCompleted ==
    /\ []TrackedLifecycle
    /\ [][OutcomeSetOnceAtDeadline]_vars

(***************************************************************************)
(* Functions called on their own.                                          *)
(***************************************************************************)
\* the rule for a LONG signal: price, stop, entry and target as given
LongRule(price, stop, entry, target) ==
    IF price >= target THEN "WIN"
    ELSE IF price <= stop THEN "LOSS"
    ELSE IF 2 * price >= entry + target THEN "WIN"
    ELSE IF price < entry THEN "LOSS"
    ELSE "NEUTRAL"

C32_ShortHuntOnEqualVolumes ==
    called.fn = "determine_direction" =>
        LET long == SideLiqVolume(called.liquidations, 1)
            short == SideLiqVolume(called.liquidations, 2)
        IN long + short > 0 =>
              returned = IF long >= short
                         THEN <<"SHORT_HUNT", <<long, long + short>>>>
                         ELSE <<"LONG_HUNT", <<short, long + short>>>>

\* the combined assessment of the context the last call was given
CalledAssessment ==
    evaluate_context(called.md, called.signal_direction).combined_assessment

\* C33: the context filter passes a signal in strict mode exactly when the
\* combined assessment is FAVORABLE, in normal mode exactly when it is not
\* UNFAVORABLE, and in permissive mode always; with no context data for the
\* base symbol it passes the signal in every mode with zero confidence
\* adjustment.
C33_PassByMode ==
    called.fn = "evaluate" =>
        IF ~called.md.has_oi /\ ~called.md.has_funding
        THEN returned.passed /\ returned.confidence_adjustment = 0
        ELSE /\ called.mode = "strict" =>
                   (returned.passed <=> CalledAssessment = "FAVORABLE")
             /\ called.mode = "normal" =>
                   (returned.passed <=> CalledAssessment # "UNFAVORABLE")
             /\ called.mode = "permissive" => returned.passed

\* a strict filter blocked a signal whose context is NEUTRAL
C33_Witness ==
    /\ called.fn = "evaluate"
    /\ called.mode = "strict"
    /\ called.md.has_funding
    /\ CalledAssessment = "NEUTRAL"
    /\ ~returned.passed

ReadTimedOut == consecutive_timeouts' = consecutive_timeouts + 1

\* this step, the receive loop gave the session up
SessionGivenUp == lostSession' # lostSession

\* C35: in every session, sessions established by a reconnect included, read
\* timeouts force a reconnect only after three consecutive timeouts with no
\* frame in between: the count of consecutive timeouts starts from zero on
\* each new session, returns to zero on every received frame, and a timeout
\* gives the session up only as the third in a row.
C35_TimeoutCountPerSession ==
    [][/\ sessions' # sessions => consecutive_timeouts' = 0
       /\ consecutive_timeouts' # consecutive_timeouts =>
             consecutive_timeouts' = 0 \/ ReadTimedOut
       /\ (ReadTimedOut /\ SessionGivenUp) =>
             consecutive_timeouts' = max_consecutive_timeouts]_vars

(***************************************************************************)
(* Claims about the trade subscriptions.                                   *)
(***************************************************************************)
\* C36: after every connect or reconnect, each symbol the supervisor records
\* as trade-subscribed has had a subscribe frame sent for its trades channel
\* on the current session, the symbols subscribed by a dashboard request or
\* by discovery before the reconnect included.
C36_SubscribedOnCurrentSession ==
    stream_up => trade_subscribed \subseteq session_frames

\* a request of the dashboard for the symbol waits in the queue
Requested(action, symbol) ==
    \E i \in DOMAIN subscription_queue :
       subscription_queue[i] = [action |-> action, symbol |-> symbol]

\* the symbol is trade-subscribed on a live session
Applied(symbol) ==
    /\ stream_up
    /\ symbol \in trade_subscribed
    /\ symbol \in session_frames

\* C37: every subscribe request placed on the dashboard's queue is eventually
\* applied: unless a request to unsubscribe it is queued as well, the symbol
\* ends up trade-subscribed on a live session, also when the stream was not
\* connected or the send failed at the moment the request was drained.
C37_RequestEventuallyApplied ==
    \A symbol \in Symbols :
       Requested("subscribe", symbol) ~>
          (Applied(symbol) \/ Requested("unsubscribe", symbol))

(***************************************************************************)
(* Claims about the buffer manager used from several threads.              *)
(***************************************************************************)
\* the events inserted into a buffer that its deque has to hold: the last
\* maxlen of them that are not older than the newest cutoff
Kept(key) ==
    Recent(LastN(inserted[key], MaxLenOf(key)), newest_cutoff)

\* the deque of the buffer holds the event
InRing(key, event) == \E i \in DOMAIN Ring(key) : Ring(key)[i] = event

\* C38: the buffer manager is safe under concurrent use from several
\* threads: an event inserted by add_liquidation or add_trade while
\* cleanup_old_data runs on the same symbol is never lost, so once both have
\* completed every inserted event newer than the cleanup cutoff is in the ring.
C38_NoInsertLostToCleanup ==
    cleaner.pc = "idle" =>
       \A key \in BufferKeys :
          \A i \in DOMAIN Kept(key) : InRing(key, Kept(key)[i])

(***************************************************************************)
(* Claims about the completion marks of the alert queue.                   *)
(***************************************************************************)
\* the queue is drained: it holds nothing and the drain loop holds no alert
Drained == heap = <<>> /\ procPc = "get"

\* wait_empty: queue.join() returns when no put is left without its task_done
JoinReturns == unfinished = 0

\* C39: wait_empty returns once every alert taken from the queue has been
\* delivered or dropped: each get is matched by exactly one completion mark,
\* also when the alert is handed to retry and enqueued again, so the queue's
\* count of unfinished items is back at zero when the queue is drained.
C39_JoinReturnsWhenDrained == Drained => JoinReturns

====
